---- MODULE Spec2Model ----
(***************************************************************************)
(* State-machine model of the room game engine (room/game.py) and of the   *)
(* websocket connection handler that drives it (room/server.py).           *)
(*                                                                         *)
(* One step of the model is one run of the event loop between two          *)
(* suspension points: asyncio.Queue.put on an unbounded queue never        *)
(* suspends, so OnlineRoom.enter up to its yield, one iteration of the     *)
(* message loop and the code after the yield are each a single step.       *)
(***************************************************************************)
EXTENDS Integers, Sequences, FiniteSets, TLC

(***************************************************************************)
(* Program constants                                                       *)
(***************************************************************************)
WIDTH == 16
HEIGHT == 9
SIZE == 8
\* Width and height of the grid of a legacy room file (OfflineRoom._check).
source_width == 8
source_height == 8

NTILES == WIDTH * HEIGHT

(***************************************************************************)
(* Bounds of the model                                                     *)
(***************************************************************************)
\* Inbound websocket messages handled over a whole run.
MaxMessages == 2
\* Calls of OnlineRoom.enter over a whole run.
MaxEnters == 2
\* Players of a game.
MaxPlayers == 3
\* Publish calls over a whole run, where the write tasks run too.
MaxPublished == 5
\* Save attempts of the loop of Game.run that a timer (not a cancellation)
\* sets off.
MaxSaves == 2
\* Members on the roster of a room on which link_member is called directly.
MaxRoster == 3

\* Websocket connections (each one run of _get_room_actions at a time).
Conns == {"c1", "c2"}
\* Strings randstr() hands out as room ids.
RoomIds == {"ra"}
\* Strings randstr() hands out as blueprint ids.
MintedIds == {"xa", "xb"}
\* Players the connections are authenticated as (context.player).
PlayerOf(c) == "player-" \o c

\* Optional[T]: None is the empty sequence, a value v is <<v>>.
None == << >>
Some(v) == << v >>

(***************************************************************************)
(* Tile blueprints                                                         *)
(***************************************************************************)
UseCause == "UseCause"

TransformTileEffect(b) == [type |-> "TransformTileEffect", blueprint_id |-> b]
FollowLinkEffect(u, l) == [type |-> "FollowLinkEffect", url |-> u, link |-> l]
Link(u, t) == [url |-> u, title |-> t]
\* A URL, split the way urlsplit splits it: origin (scheme://netloc) and the rest.
Url(origin, path) == [origin |-> origin, path |-> path]

NoEffects == [c \in {} |-> << >>]
OnUse(effects) == [c \in {UseCause} |-> effects]

Tile(id, wall, effects) ==
    [id |-> id, image |-> "png:" \o id, wall |-> wall, effects |-> effects]

DEFAULT_BLUEPRINTS ==
    [id \in {"void", "grass", "floor", "wall-horizontal", "wall-horizontal-left",
             "wall-horizontal-right", "wall-vertical", "wall-corner-bottom-left",
             "wall-corner-bottom-right", "wall-corner-top-left",
             "wall-corner-top-right", "wall-door-closed", "wall-door-open",
             "wall-lamp-off", "wall-lamp-on", "wall-board"} |->
        CASE id \in {"void", "grass", "floor"} -> Tile(id, FALSE, NoEffects)
          [] id = "wall-door-closed" ->
                Tile(id, TRUE, OnUse(<<TransformTileEffect("wall-door-open")>>))
          [] id = "wall-door-open" ->
                Tile(id, FALSE, OnUse(<<TransformTileEffect("wall-door-closed")>>))
          [] id = "wall-lamp-off" ->
                Tile(id, TRUE, OnUse(<<TransformTileEffect("wall-lamp-on")>>))
          [] id = "wall-lamp-on" ->
                Tile(id, TRUE, OnUse(<<TransformTileEffect("wall-lamp-off")>>))
          [] id = "wall-board" ->
                Tile(id, TRUE,
                     OnUse(<<FollowLinkEffect(Url("https://discord.gg", "/Jey5jCJy2T"), None)>>))
          [] OTHER -> Tile(id, TRUE, NoEffects)]

(***************************************************************************)
(* State                                                                   *)
(***************************************************************************)
VARIABLES
    rooms,      \* Game.rooms: room id -> OnlineRoom, _members a list of member ids
    members,    \* Game.members: member id -> Member
    queue,      \* Member._queue of every member object alive
    conn,       \* per connection: where _get_room_actions stands, and its member
    action,     \* per connection: local `action` of the last loop iteration
    error,      \* per connection: local `error` of the last loop iteration
    sent,       \* per connection: what websocket.send_str has written, in order
    log,        \* every Room.publish / Member.publish call, in call order
    handled,    \* per connection: inbound messages handled so far
    entered,    \* calls of OnlineRoom.enter so far
    players,    \* Game.players: player id -> PrivatePlayer
    tokens,     \* Game._tokens: token -> the player object, named by its id
    reply,      \* what the last request about a player came to
    disk,       \* the data directory at Game.data_path
    run         \* where create_data_directory and the task of Game.run stand

vars == <<rooms, members, queue, conn, action, error, sent, log, handled, entered,
          players, tokens, reply, disk, run>>

\* The rooms and their connections, and the players.
gvars == <<rooms, members, queue, conn, action, error, sent, log, handled, entered>>
pvars == <<players, tokens, reply>>
\* The data directory and the task that saves to it.
dvars == <<disk, run>>

(***************************************************************************)
(* Python helpers                                                          *)
(***************************************************************************)
Range(s) == {s[i] : i \in 1..Len(s)}

\* list[i]: the 1-based position a Python index denotes in a list of length
\* n (negative indices count from the end), 0 when it raises IndexError.
PyIndex(n, i) ==
    IF 0 <= i /\ i < n THEN i + 1
    ELSE IF -n <= i /\ i < 0 THEN n + i + 1
    ELSE 0

\* list.remove(x): drops the first occurrence of x.
RECURSIVE ListRemove(_, _)
ListRemove(s, x) ==
    IF s = << >> THEN << >>
    ELSE IF Head(s) = x THEN Tail(s)
    ELSE <<Head(s)>> \o ListRemove(Tail(s), x)

\* str() of a pair of ints, as an f-string formats a position.
PyTuple(p) == "(" \o ToString(p[1]) \o ", " \o ToString(p[2]) \o ")"

\* Exceptions: no exception is None, a raised one is Some([type, arg]).
Raise(type, arg) == Some([type |-> type, arg |-> arg])

\* The n-th string randstr() returns as a member id. Member ids are drawn
\* from 26^16 strings; the model takes the draws to be pairwise distinct.
MemberId(n) == "m" \o ToString(n)

(***************************************************************************)
(* Actions (messages)                                                      *)
(***************************************************************************)
MoveMemberAction(m, position) ==
    [type |-> "MoveMemberAction", member_id |-> m, position |-> position]
UpdateRoomAction(m, room) ==
    [type |-> "UpdateRoomAction", member_id |-> m, room |-> room]
PlaceTileAction(m, tile_index, blueprint_id) ==
    [type |-> "PlaceTileAction", member_id |-> m, tile_index |-> tile_index,
     blueprint_id |-> blueprint_id]
UseAction(m, tile_index, effects) ==
    [type |-> "UseAction", member_id |-> m, tile_index |-> tile_index,
     effects |-> effects]
UpdateBlueprintAction(m, blueprint) ==
    [type |-> "UpdateBlueprintAction", member_id |-> m, blueprint |-> blueprint]
WelcomeAction(m, room) ==
    [type |-> "WelcomeAction", member_id |-> m, room |-> room]
FailedAction(m, message) ==
    [type |-> "FailedAction", member_id |-> m, message |-> message]

BaseRoom(id, title, description) ==
    [id |-> id, title |-> title, description |-> description]

(***************************************************************************)
(* Game state threaded through the synchronous code: g.rooms, g.members,   *)
(* g.queue and the publish log g.log.                                      *)
(***************************************************************************)
Member(id, player_id, room_id, position) ==
    [id |-> id, player_id |-> player_id, room_id |-> room_id, position |-> position]

\* Member.publish putting the action at the front of the queue.
member_publish_front(g, m, a) ==
    [g EXCEPT !.queue[m] = <<a>> \o @]

\* Member.publish on a queue that holds one action at most: put waits while
\* the queue is full, so the action is not on the queue when the step ends.
member_publish_bounded(g, m, a) ==
    IF Len(g.queue[m]) >= 1 THEN g ELSE [g EXCEPT !.queue[m] = Append(@, a)]

\* Member.publish
member_publish(g, m, a) ==
    [g EXCEPT !.queue[m] = Append(@, a)]

RECURSIVE publish_each(_, _, _)
publish_each(g, roster, a) ==
    IF roster = << >> THEN g
    ELSE publish_each(member_publish(g, Head(roster), a), Tail(roster), a)

\* OnlineRoom.publish reaching the members of every room.
room_publish_everywhere(g, r, a) ==
    [g EXCEPT
        !.queue = [m \in DOMAIN g.queue |->
                      IF m \in DOMAIN g.members THEN Append(g.queue[m], a)
                      ELSE g.queue[m]],
        !.log = Append(@, [room |-> Some(r), to |-> Range(g.rooms[r].members),
                           action |-> a])]

\* OnlineRoom.publish; the log keeps who was linked when it was called.
room_publish(g, r, a) ==
    [publish_each(g, g.rooms[r].members, a) EXCEPT
        !.log = Append(@, [room |-> Some(r), to |-> Range(g.rooms[r].members),
                           action |-> a])]

\* Member.publish called on its own (OnlineRoom.enter), logged as private.
private_publish(g, m, a) ==
    [member_publish(g, m, a) EXCEPT
        !.log = Append(@, [room |-> None, to |-> {m}, action |-> a])]

\* OnlineRoom.link_member that takes a member of any room.
link_member_unchecked(g, r, m) ==
    [g |-> [g EXCEPT !.rooms[r].members = Append(@, m)], raised |-> None]

\* OnlineRoom.link_member
link_member(g, r, m) ==
    IF g.members[m].room_id # g.rooms[r].id
    THEN [g |-> g, raised |-> Raise("ValueError", "Alien member room_id " \o g.members[m].room_id)]
    ELSE [g |-> [g EXCEPT !.rooms[r].members = Append(@, m)], raised |-> None]

\* OnlineRoom.unlink_member
unlink_member(g, r, m) ==
    IF m \notin Range(g.rooms[r].members)
    THEN [g |-> g, raised |-> Raise("LookupError", m)]
    ELSE [g |-> [g EXCEPT !.rooms[r].members = ListRemove(@, m)], raised |-> None]

\* Game.create_room that resets the title of the rooms there are.
create_room_retitling(g, id) ==
    [g EXCEPT !.rooms = [x \in DOMAIN g.rooms \cup {id} |->
        IF x = id
        THEN [id |-> id, title |-> "New Room", description |-> None,
              tile_ids |-> [i \in 1..NTILES |-> "void"],
              blueprints |-> DEFAULT_BLUEPRINTS, version |-> "0.5",
              members |-> << >>]
        ELSE [g.rooms[x] EXCEPT !.title = "New Room"]]]

\* Game.create_room
create_room(g, id) ==
    [g EXCEPT !.rooms = [x \in DOMAIN g.rooms \cup {id} |->
        IF x = id
        THEN [id |-> id, title |-> "New Room", description |-> None,
              tile_ids |-> [i \in 1..NTILES |-> "void"],
              blueprints |-> DEFAULT_BLUEPRINTS, version |-> "0.5",
              members |-> << >>]
        ELSE g.rooms[x]]]

\* Game.create_member that links the member twice.
create_member_linking_twice(g, id, player_id, r) ==
    LET member == Member(id, player_id, g.rooms[r].id,
                         <<(WIDTH * SIZE) \div 2, (HEIGHT * SIZE) \div 2>>)
        g1 == [g EXCEPT
                 !.members = [x \in DOMAIN g.members \cup {id} |->
                                 IF x = id THEN member ELSE g.members[x]],
                 !.queue = [x \in DOMAIN g.queue \cup {id} |->
                               IF x = id THEN << >> ELSE g.queue[x]]]
    IN  link_member(link_member(g1, r, id).g, r, id)

\* Game.create_member: registers the member, with its empty queue, and links it.
create_member(g, id, player_id, r) ==
    LET member == Member(id, player_id, g.rooms[r].id,
                         <<(WIDTH * SIZE) \div 2, (HEIGHT * SIZE) \div 2>>)
        g1 == [g EXCEPT
                 !.members = [x \in DOMAIN g.members \cup {id} |->
                                 IF x = id THEN member ELSE g.members[x]],
                 !.queue = [x \in DOMAIN g.queue \cup {id} |->
                               IF x = id THEN << >> ELSE g.queue[x]]]
    IN  link_member(g1, r, id)

\* delete_member that leaves the member on the roster.
delete_member_linked(g, m) ==
    IF m \notin DOMAIN g.members
    THEN [g |-> g, raised |-> Raise("KeyError", m)]
    ELSE [g |-> [g EXCEPT !.members = [x \in DOMAIN g.members \ {m} |-> g.members[x]]],
          raised |-> None]

\* Game.delete_member
delete_member(g, m) ==
    IF m \notin DOMAIN g.members
    THEN [g |-> g, raised |-> Raise("KeyError", m)]
    ELSE LET r == g.members[m].room_id
             g1 == [g EXCEPT !.members = [x \in DOMAIN g.members \ {m} |-> g.members[x]]]
         IN  unlink_member(g1, r, m)


(***************************************************************************)
(* Action performers. Each returns the game state it leaves behind, the    *)
(* exception it raised (None when it returned) and the action it returned. *)
(* The state is returned as the code left it, also when it raised.         *)
(***************************************************************************)
Returned(g, a) == [g |-> g, raised |-> None, result |-> Some(a)]
Raised(g, type, arg) == [g |-> g, raised |-> Raise(type, arg), result |-> None]

\* The bounds check letting the coordinate -1 in.
InBounds_from_minus_one(position) ==
    /\ -1 <= position[1] /\ position[1] < WIDTH * SIZE
    /\ -1 <= position[2] /\ position[2] < HEIGHT * SIZE

\* The bounds check with the upper bounds let in.
InBounds_inclusive(position) ==
    /\ 0 <= position[1] /\ position[1] <= WIDTH * SIZE
    /\ 0 <= position[2] /\ position[2] <= HEIGHT * SIZE

InBounds(position) ==
    /\ 0 <= position[1] /\ position[1] < WIDTH * SIZE
    /\ 0 <= position[2] /\ position[2] < HEIGHT * SIZE

\* Member.MoveMemberAction.perform
MoveMemberAction_perform(g, r, a) ==
    IF ~InBounds(a.position)
    THEN Raised(g, "ValueError", "Out-of-range position " \o PyTuple(a.position))
    ELSE IF a.member_id \notin DOMAIN g.members
    THEN Raised(g, "KeyError", a.member_id)
    ELSE Returned(room_publish([g EXCEPT !.members[a.member_id].position = a.position],
                               r, a), a)

\* UpdateRoomAction.perform taking the details of any room.
UpdateRoomAction_perform_any(g, r, a) ==
    Returned(room_publish([g EXCEPT !.rooms[r].title = a.room.title,
                                    !.rooms[r].description = a.room.description],
                          r, a), a)

\* OnlineRoom.UpdateRoomAction.perform
UpdateRoomAction_perform(g, r, a) ==
    IF a.room.id # g.rooms[r].id
    THEN Raised(g, "ValueError", "External room " \o a.room.id)
    ELSE Returned(room_publish([g EXCEPT !.rooms[r].title = a.room.title,
                                         !.rooms[r].description = a.room.description],
                               r, a), a)

\* PlaceTileAction.perform without the broadcast.
PlaceTileAction_perform_silent(g, r, a) ==
    LET room == g.rooms[r]
        i == PyIndex(Len(room.tile_ids), a.tile_index)
    IN  IF a.blueprint_id \notin DOMAIN room.blueprints
        THEN Raised(g, "KeyError", a.blueprint_id)
        ELSE IF i = 0
        THEN Raised(g, "IndexError", "list assignment index out of range")
        ELSE Returned([g EXCEPT !.rooms[r].tile_ids[i] = room.blueprints[a.blueprint_id].id],
                      a)

\* PlaceTileAction.perform writing the cell before it looks the blueprint up.
PlaceTileAction_perform_late_check(g, r, a) ==
    LET room == g.rooms[r]
        i == PyIndex(Len(room.tile_ids), a.tile_index)
        written == [g EXCEPT !.rooms[r].tile_ids[i] = a.blueprint_id]
    IN  IF i = 0
        THEN Raised(g, "IndexError", "list assignment index out of range")
        ELSE IF a.blueprint_id \notin DOMAIN room.blueprints
        THEN Raised(written, "KeyError", a.blueprint_id)
        ELSE Returned(room_publish(written, r, a), a)

\* OnlineRoom.PlaceTileAction.perform: the right-hand side self.blueprint.id
\* is evaluated before the list item is assigned.
PlaceTileAction_perform(g, r, a) ==
    LET room == g.rooms[r]
        i == PyIndex(Len(room.tile_ids), a.tile_index)
    IN  IF a.blueprint_id \notin DOMAIN room.blueprints
        THEN Raised(g, "KeyError", a.blueprint_id)
        ELSE IF i = 0
        THEN Raised(g, "IndexError", "list assignment index out of range")
        ELSE Returned(room_publish(
                 [g EXCEPT !.rooms[r].tile_ids[i] = room.blueprints[a.blueprint_id].id],
                 r, a), a)

\* TransformTileEffect.apply
\* TransformTileEffect.apply that leaves the grid alone.
TransformTileEffect_apply_idle(g, r, effect, tile_index) ==
    LET i == PyIndex(Len(g.rooms[r].tile_ids), tile_index)
    IN  IF i = 0
        THEN [g |-> g, raised |-> Raise("IndexError", "list assignment index out of range"),
              effect |-> effect]
        ELSE [g |-> g, raised |-> None, effect |-> effect]

TransformTileEffect_apply(g, r, effect, tile_index) ==
    LET i == PyIndex(Len(g.rooms[r].tile_ids), tile_index)
    IN  IF i = 0
        THEN [g |-> g, raised |-> Raise("IndexError", "list assignment index out of range"),
              effect |-> effect]
        ELSE [g |-> [g EXCEPT !.rooms[r].tile_ids[i] = effect.blueprint_id],
              raised |-> None, effect |-> effect]

\* FollowLinkEffect.apply
FollowLinkEffect_apply(g, r, effect, tile_index) ==
    [g |-> g, raised |-> None,
     effect |-> [effect EXCEPT !.link = Some(Link(effect.url, "Link"))]]

apply(g, r, effect, tile_index) ==
    IF effect.type = "TransformTileEffect"
    THEN TransformTileEffect_apply(g, r, effect, tile_index)
    ELSE FollowLinkEffect_apply(g, r, effect, tile_index)

\* The list comprehension of Tile.cause: effects applied in list order, the
\* first exception ends it.
RECURSIVE apply_all(_, _, _, _, _)
apply_all(g, r, effects, tile_index, done) ==
    IF effects = << >> THEN [g |-> g, raised |-> None, effects |-> done]
    ELSE LET one == apply(g, r, Head(effects), tile_index)
         IN  IF one.raised # None
             THEN [g |-> one.g, raised |-> one.raised, effects |-> done]
             ELSE apply_all(one.g, r, Tail(effects), tile_index, Append(done, one.effect))

\* Tile.cause applying the effects from the last to the first.
cause_last_first(g, r, tile, c, tile_index) ==
    LET effects == IF c \in DOMAIN tile.effects THEN tile.effects[c] ELSE << >>
    IN  apply_all(g, r, [i \in 1..Len(effects) |-> effects[Len(effects) + 1 - i]],
                  tile_index, << >>)

\* Tile.cause
cause(g, r, tile, c, tile_index) ==
    LET effects == IF c \in DOMAIN tile.effects THEN tile.effects[c] ELSE << >>
    IN  apply_all(g, r, effects, tile_index, << >>)

\* OfflineRoom.tiles: the ids that do not resolve, in grid order.
Unresolved(room) ==
    SelectSeq(room.tile_ids, LAMBDA id : id \notin DOMAIN room.blueprints)

\* OnlineRoom.UseAction.perform
UseAction_perform(g, r, a) ==
    LET room == g.rooms[r]
        i == PyIndex(Len(room.tile_ids), a.tile_index)
    IN  IF Unresolved(room) # << >>
        THEN Raised(g, "KeyError", Head(Unresolved(room)))
        ELSE IF i = 0
        THEN Raised(g, "IndexError", "list index out of range")
        ELSE LET caused == cause(g, r, room.blueprints[room.tile_ids[i]], UseCause,
                                 a.tile_index)
                 result == [a EXCEPT !.effects = caused.effects]
             IN  IF caused.raised # None
                 THEN [g |-> caused.g, raised |-> caused.raised, result |-> None]
                 ELSE Returned(room_publish(caused.g, r, result), result)

\* All effects of a blueprint, cause by cause.
AllEffects(blueprint) ==
    IF UseCause \in DOMAIN blueprint.effects THEN blueprint.effects[UseCause] ELSE << >>

\* The TransformTileEffect targets of a blueprint that do not resolve.
MissingTargets(room, blueprint) ==
    SelectSeq(AllEffects(blueprint),
              LAMBDA e : /\ e.type = "TransformTileEffect"
                         /\ e.blueprint_id \notin DOMAIN room.blueprints)

\* UpdateBlueprintAction.perform storing a blueprint under any id it is given.
UpdateBlueprintAction_perform_upsert(g, r, a, fresh) ==
    LET room == g.rooms[r]
        missing == MissingTargets(room, a.blueprint)
        result == IF a.blueprint.id # "" THEN a
                  ELSE [a EXCEPT !.blueprint.id = fresh]
        id == result.blueprint.id
    IN  IF missing # << >>
        THEN Raised(g, "KeyError", Head(missing).blueprint_id)
        ELSE Returned(room_publish(
                 [g EXCEPT !.rooms[r].blueprints =
                     [x \in DOMAIN room.blueprints \cup {id} |->
                         IF x = id THEN result.blueprint ELSE room.blueprints[x]]],
                 r, result), result)

\* UpdateBlueprintAction.perform without the check of the effects' targets.
UpdateBlueprintAction_perform_unchecked(g, r, a, fresh) ==
    LET room == g.rooms[r]
        result == IF a.blueprint.id # "" THEN a
                  ELSE [a EXCEPT !.blueprint.id = fresh]
        id == result.blueprint.id
    IN  IF a.blueprint.id # "" /\ a.blueprint.id \notin DOMAIN room.blueprints
        THEN Raised(g, "KeyError", a.blueprint.id)
        ELSE Returned(room_publish(
                 [g EXCEPT !.rooms[r].blueprints =
                     [x \in DOMAIN room.blueprints \cup {id} |->
                         IF x = id THEN result.blueprint ELSE room.blueprints[x]]],
                 r, result), result)

\* UpdateBlueprintAction.perform that stores the blueprint under the id it
\* was sent with.
UpdateBlueprintAction_perform_keyed_as_sent(g, r, a, fresh) ==
    LET room == g.rooms[r]
        missing == MissingTargets(room, a.blueprint)
        result == IF a.blueprint.id # "" THEN a
                  ELSE [a EXCEPT !.blueprint.id = fresh]
        id == a.blueprint.id
    IN  IF missing # << >>
        THEN Raised(g, "KeyError", Head(missing).blueprint_id)
        ELSE IF a.blueprint.id # "" /\ a.blueprint.id \notin DOMAIN room.blueprints
        THEN Raised(g, "KeyError", a.blueprint.id)
        ELSE Returned(room_publish(
                 [g EXCEPT !.rooms[r].blueprints =
                     [x \in DOMAIN room.blueprints \cup {id} |->
                         IF x = id THEN result.blueprint ELSE room.blueprints[x]]],
                 r, result), result)

\* OnlineRoom.UpdateBlueprintAction.perform; fresh is what randstr() returns.
UpdateBlueprintAction_perform(g, r, a, fresh) ==
    LET room == g.rooms[r]
        missing == MissingTargets(room, a.blueprint)
        result == IF a.blueprint.id # "" THEN a
                  ELSE [a EXCEPT !.blueprint.id = fresh]
        id == result.blueprint.id
    IN  IF missing # << >>
        THEN Raised(g, "KeyError", Head(missing).blueprint_id)
        ELSE IF a.blueprint.id # "" /\ a.blueprint.id \notin DOMAIN room.blueprints
        THEN Raised(g, "KeyError", a.blueprint.id)
        ELSE Returned(room_publish(
                 [g EXCEPT !.rooms[r].blueprints =
                     [x \in DOMAIN room.blueprints \cup {id} |->
                         IF x = id THEN result.blueprint ELSE room.blueprints[x]]],
                 r, result), result)


(***************************************************************************)
(* The connection handler (_get_room_actions)                              *)
(***************************************************************************)
\* The public URL of the API (serve's default).
ApiUrl == "http://localhost:8080"

\* Image data URLs that decode to a SIZE x SIZE png.
ValidImage(image) == image \in {"png:" \o id : id \in DOMAIN DEFAULT_BLUEPRINTS}

\* Tile validation: the image check and min_length=1 of every effect list.
ValidTile(t) ==
    /\ DOMAIN t = {"id", "image", "wall", "effects"}
    /\ ValidImage(t.image)
    /\ \A c \in DOMAIN t.effects : c = UseCause /\ Len(t.effects[c]) >= 1

\* Text: a string with visible characters.
ValidText(t) == t # ""

ValidBaseRoom(room) ==
    /\ {"id", "title", "description"} \subseteq DOMAIN room
    /\ ValidText(room.title)
    /\ room.description = None \/ ValidText(room.description[1])

\* _AnyActionModel.validate_json: the union member whose fields the JSON
\* object carries; None stands for a ValidationError. Unknown keys of the
\* object are dropped, and type is computed from the class that matched.
Decode(data) ==
    LET keys == DOMAIN data
    IN  IF "member_id" \notin keys THEN None
        ELSE IF "room" \in keys /\ ValidBaseRoom(data.room)
        THEN Some(UpdateRoomAction(data.member_id,
                  BaseRoom(data.room.id, data.room.title, data.room.description)))
        ELSE IF {"tile_index", "blueprint_id"} \subseteq keys
        THEN Some(PlaceTileAction(data.member_id, data.tile_index, data.blueprint_id))
        ELSE IF {"tile_index", "effects"} \subseteq keys
        THEN Some(UseAction(data.member_id, data.tile_index, data.effects))
        ELSE IF "blueprint" \in keys /\ ValidTile(data.blueprint)
        THEN Some(UpdateBlueprintAction(data.member_id, data.blueprint))
        ELSE IF "position" \in keys
        THEN Some(MoveMemberAction(data.member_id, data.position))
        ELSE None

\* _update_blueprint.rewrite_effect_url
rewrite_effect_url(effect) ==
    IF effect.type = "FollowLinkEffect" /\ effect.url.origin = ApiUrl
    THEN [effect EXCEPT !.url = Url("", effect.url.path)]
    ELSE effect

\* _update_blueprint
update_blueprint(g, r, a, fresh) ==
    LET effects == [c \in DOMAIN a.blueprint.effects |->
                       [i \in 1..Len(a.blueprint.effects[c]) |->
                           rewrite_effect_url(a.blueprint.effects[c][i])]]
    IN  UpdateBlueprintAction_perform(g, r, [a EXCEPT !.blueprint.effects = effects], fresh)

\* _actions.get(type(action)) or _perform
perform(g, r, a, fresh) ==
    CASE a.type = "UpdateBlueprintAction" -> update_blueprint(g, r, a, fresh)
      [] a.type = "UpdateRoomAction" -> UpdateRoomAction_perform(g, r, a)
      [] a.type = "PlaceTileAction" -> PlaceTileAction_perform(g, r, a)
      [] a.type = "UseAction" -> UseAction_perform(g, r, a)
      [] a.type = "MoveMemberAction" -> MoveMemberAction_perform(g, r, a)

\* The try block without the check of the sender.
try_unchecked(g, r, m, data, fresh) ==
    LET decoded == Decode(data)
    IN  IF "binary" \in DOMAIN data
        THEN [g |-> g, raised |-> Raise("AssertionError", ""), action |-> None]
        ELSE IF decoded = None
        THEN [g |-> g, raised |-> Raise("ValidationError", "no match"), action |-> None]
        ELSE LET done == perform(g, r, decoded[1], fresh)
             IN  [g |-> done.g, raised |-> done.raised, action |-> decoded]

\* The try block of one loop iteration for the connection of member m:
\* decode, check the sender, perform. action is the local of that name. A
\* message that is not text (data with a key binary) fails the assertion.
try(g, r, m, data, fresh) ==
    LET decoded == Decode(data)
    IN  IF "binary" \in DOMAIN data
        THEN [g |-> g, raised |-> Raise("AssertionError", ""), action |-> None]
        ELSE IF decoded = None
        THEN [g |-> g, raised |-> Raise("ValidationError", "no match"), action |-> None]
        ELSE IF decoded[1].member_id # m
        THEN [g |-> g, raised |-> Raise("ValueError", "Forbidden action"),
              action |-> decoded]
        ELSE LET done == perform(g, r, decoded[1], fresh)
             IN  [g |-> done.g, raised |-> done.raised, action |-> decoded]

\* The except clauses, in their order.
except(raised) ==
    IF raised = None THEN None
    ELSE LET e == raised[1]
         IN  CASE e.type = "ValidationError" -> Some("Bad message (" \o e.arg \o ")")
               [] e.type = "ValueError" -> Some(e.arg)
               [] e.type = "IndexError" -> Some("Unknown index")
               [] e.type \in {"LookupError", "KeyError"} -> Some("Unknown key " \o e.arg)
               [] OTHER -> Some("Unhandled server error")

\* The test taken the other way round.
Truthy_inverted(err) == ~(err # None /\ err[1] # "")

\* if error: (None and the empty string are falsy)
Truthy(err) == err # None /\ err[1] # ""


\* OnlineRoom.with_members: a copy of the room's fields; its _members is the
\* room's own roster list, so the copy names the room whose roster it reads.
with_members(g, r) ==
    [id |-> g.rooms[r].id, title |-> g.rooms[r].title,
     description |-> g.rooms[r].description, tile_ids |-> g.rooms[r].tile_ids,
     blueprints |-> g.rooms[r].blueprints, version |-> g.rooms[r].version,
     roster_of |-> r]

\* Member.with_player
with_player(member) ==
    [id |-> member.id, player_id |-> member.player_id, room_id |-> member.room_id,
     position |-> member.position, player |-> member.player_id]

\* action.model_dump_json(): OnlineRoomWithMembers.members is computed from
\* the roster when the action is serialized.
model_dump_json(g, a) ==
    IF a.type # "WelcomeAction" THEN a
    ELSE LET roster == g.rooms[a.room.roster_of].members
         IN  [a EXCEPT !.room =
                 [id |-> a.room.id, title |-> a.room.title,
                  description |-> a.room.description, tile_ids |-> a.room.tile_ids,
                  blueprints |-> a.room.blueprints, version |-> a.room.version,
                  members |-> [i \in 1..Len(roster) |-> with_player(g.members[roster[i]])]]]

\* enter publishing the welcome to the whole room.
enter_welcome_all(g, r, id, player_id) ==
    LET created == create_member(g, id, player_id, r)
        g1 == room_publish(created.g, r,
                  MoveMemberAction(id, created.g.members[id].position))
        g2 == room_publish(g1, r, WelcomeAction(id, with_members(g1, r)))
    IN  IF created.raised # None THEN created ELSE [g |-> g2, raised |-> None]

\* OnlineRoom.enter up to its yield, for the player of connection c.
enter(g, r, id, player_id) ==
    LET created == create_member(g, id, player_id, r)
        g1 == room_publish(created.g, r,
                  MoveMemberAction(id, created.g.members[id].position))
        g2 == private_publish(g1, id, WelcomeAction(id, with_members(g1, r)))
    IN  IF created.raised # None THEN created ELSE [g |-> g2, raised |-> None]

\* OnlineRoom.enter after its yield.
exit(g, r, id) ==
    LET deleted == delete_member(g, id)
    IN  IF deleted.raised # None THEN deleted
        ELSE [g |-> room_publish(deleted.g, r, MoveMemberAction(id, <<-1, -1>>)),
              raised |-> None]

(***************************************************************************)
(* Steps                                                                   *)
(***************************************************************************)
G == [rooms |-> rooms, members |-> members, queue |-> queue, log |-> log]

Becomes(g) ==
    /\ rooms' = g.rooms
    /\ members' = g.members
    /\ queue' = g.queue
    /\ log' = g.log

RECURSIVE Sum(_, _)
Sum(f, S) == IF S = {} THEN 0 ELSE LET x == CHOOSE x \in S : TRUE
                                   IN  f[x] + Sum(f, S \ {x})

\* Inbound messages handled by all connections together.
Handled == Sum(handled, Conns)

NoConn == [state |-> "idle", room |-> "", member |-> ""]

\* A data_path at which there is nothing: no directory, so no marker file
\* 'room', no other entry, no flat *.json file, and no state directory with
\* its players and rooms files.
NoDirectory ==
    [exists |-> FALSE, marker |-> FALSE, other |-> {}, flat |-> << >>,
     state |-> FALSE, players |-> << >>, rooms |-> << >>]

\* Nothing was called on the data directory yet: the state of the task of
\* Game.run, the exception that left create_data_directory or run, the
\* save attempts of the loop, the exception its last save raised, the
\* errors it logged, and the last call.
NotStarted ==
    [state |-> "init", raised |-> None, saves |-> 0, saved |-> None, logged |-> 0,
     op |-> "init"]

Init ==
    /\ rooms = [r \in {} |-> 0]
    /\ members = [m \in {} |-> 0]
    /\ queue = [m \in {} |-> 0]
    /\ log = << >>
    /\ conn = [c \in Conns |-> NoConn]
    /\ action = [c \in Conns |-> None]
    /\ error = [c \in Conns |-> None]
    /\ sent = [c \in Conns |-> << >>]
    /\ handled = [c \in Conns |-> 0]
    /\ entered = 0
    /\ players = [p \in {} |-> 0]
    /\ tokens = [t \in {} |-> 0]
    /\ reply = [op |-> "start"]
    /\ disk = NoDirectory
    /\ run = NotStarted

\* POST /rooms (_post_room): Game.create_room with a room id not in use.
CreateRoom ==
    \E id \in RoomIds \ DOMAIN rooms :
        /\ Becomes(create_room(G, id))
        /\ UNCHANGED <<conn, action, error, sent, handled, entered>>
        /\ UNCHANGED pvars
        /\ UNCHANGED dvars
    /\ UNCHANGED dvars

\* POST /rooms (_post_room) where randstr() returns id, a string that names
\* no room yet. Room ids are drawn from 26^16 strings; the model takes the
\* draws to be pairwise distinct.
PostRoom(id) ==
    /\ id \notin DOMAIN rooms
    /\ Becomes(create_room(G, id))
    /\ UNCHANGED <<conn, action, error, sent, handled, entered>>
    /\ UNCHANGED pvars
    /\ UNCHANGED dvars

\* GET /rooms/{id}/actions on a known room: the handler up to its first
\* wait for a message; the write task is started.
Enter(c, r) ==
    /\ conn[c].state \in {"idle", "closed"}
    /\ r \in DOMAIN rooms
    /\ entered < MaxEnters
    /\ LET id == MemberId(entered + 1)
           done == enter(G, r, id, PlayerOf(c))
       IN  /\ done.raised = None
           /\ Becomes(done.g)
           /\ conn' = [conn EXCEPT ![c] = [state |-> "active", room |-> r, member |-> id]]
    /\ action' = [action EXCEPT ![c] = None]
    /\ error' = [error EXCEPT ![c] = None]
    /\ sent' = [sent EXCEPT ![c] = << >>]
    /\ entered' = entered + 1
    /\ UNCHANGED handled
    /\ UNCHANGED pvars
    /\ UNCHANGED dvars

\* One iteration of the message loop on the text message data.
Receive(c, data, fresh) ==
    /\ conn[c].state = "active"
    /\ Handled < MaxMessages
    /\ LET m == conn[c].member
           tried == try(G, conn[c].room, m, data, fresh)
           err == except(tried.raised)
       IN  /\ Becomes(tried.g)
           /\ action' = [action EXCEPT ![c] = tried.action]
           /\ error' = [error EXCEPT ![c] = err]
           /\ sent' = [sent EXCEPT ![c] =
                         IF Truthy(err) THEN Append(@, FailedAction(m, err[1])) ELSE @]
    /\ handled' = [handled EXCEPT ![c] = @ + 1]
    /\ UNCHANGED <<conn, entered>>
    /\ UNCHANGED pvars
    /\ UNCHANGED dvars

\* An iteration of the write task that takes the next action off the queue
\* and does not send it.
Write_dropping(c) ==
    /\ conn[c].state = "active"
    /\ queue[conn[c].member] # << >>
    /\ queue' = [queue EXCEPT ![conn[c].member] = Tail(@)]
    /\ UNCHANGED <<rooms, members, conn, action, error, sent, log, handled, entered>>
    /\ UNCHANGED pvars
    /\ UNCHANGED dvars

\* One iteration of the write task: take the next action off the member's
\* queue and send it.
Write(c) ==
    /\ conn[c].state = "active"
    /\ queue[conn[c].member] # << >>
    /\ sent' = [sent EXCEPT ![c] = Append(@, model_dump_json(G, Head(queue[conn[c].member])))]
    /\ queue' = [queue EXCEPT ![conn[c].member] = Tail(@)]
    /\ UNCHANGED <<rooms, members, conn, action, error, log, handled, entered>>
    /\ UNCHANGED pvars
    /\ UNCHANGED dvars

\* The websocket is closed: the message loop ends and cancel(task) stops the
\* write task.
Close(c) ==
    /\ conn[c].state = "active"
    /\ conn' = [conn EXCEPT ![c].state = "leaving"]
    /\ UNCHANGED <<rooms, members, queue, action, error, sent, log, handled, entered>>
    /\ UNCHANGED pvars
    /\ UNCHANGED dvars

\* The write task is done: the async with block of room.enter() is left and
\* the code after the yield runs.
Leave(c) ==
    /\ conn[c].state = "leaving"
    /\ LET done == exit(G, conn[c].room, conn[c].member)
       IN  /\ Becomes(done.g)
           /\ conn' = [conn EXCEPT ![c].state =
                         IF done.raised = None THEN "closed" ELSE "aborted"]
    /\ UNCHANGED <<action, error, sent, handled, entered>>
    /\ UNCHANGED pvars
    /\ UNCHANGED dvars

\* An exception leaves the body of the async with block (the handler task
\* is cancelled while it waits for a message, or send_str raises): the
\* generator of enter() is thrown into at its yield, which no try guards,
\* so nothing after the yield runs.
Abort(c) ==
    /\ conn[c].state = "active"
    /\ conn' = [conn EXCEPT ![c].state = "aborted"]
    /\ UNCHANGED <<rooms, members, queue, action, error, sent, log, handled, entered>>
    /\ UNCHANGED pvars
    /\ UNCHANGED dvars

\* Tile.cause called on the blueprint id of room r for the cause c and the
\* tile at tile_index, with room r as the room of the context; reply keeps
\* the call and how it ended.
Cause(r, id, c, tile_index) ==
    /\ r \in DOMAIN rooms
    /\ id \in DOMAIN rooms[r].blueprints
    /\ LET caused == cause(G, r, rooms[r].blueprints[id], c, tile_index)
       IN  /\ Becomes(caused.g)
           /\ reply' = [op |-> "cause", room |-> r, tile |-> rooms[r].blueprints[id],
                        cause |-> c, tile_index |-> tile_index,
                        raised |-> caused.raised,
                        result |-> IF caused.raised = None THEN caused.effects ELSE << >>]
    /\ UNCHANGED <<conn, action, error, sent, handled, entered, players, tokens>>
    /\ UNCHANGED dvars

\* OnlineRoom.link_member called on room r with the registered member m.
LinkMember(r, m) ==
    /\ r \in DOMAIN rooms
    /\ m \in DOMAIN members
    /\ Len(rooms[r].members) < MaxRoster
    /\ LET done == link_member(G, r, m)
       IN  /\ Becomes(done.g)
           /\ reply' = [op |-> "link_member", room |-> r, member |-> m,
                        raised |-> done.raised]
    /\ UNCHANGED <<conn, action, error, sent, handled, entered, players, tokens>>
    /\ UNCHANGED dvars

\* OnlineRoom.unlink_member called on room r with the registered member m.
UnlinkMember(r, m) ==
    /\ r \in DOMAIN rooms
    /\ m \in DOMAIN members
    /\ LET done == unlink_member(G, r, m)
       IN  /\ Becomes(done.g)
           /\ reply' = [op |-> "unlink_member", room |-> r, member |-> m,
                        raised |-> done.raised]
    /\ UNCHANGED <<conn, action, error, sent, handled, entered, players, tokens>>
    /\ UNCHANGED dvars

(***************************************************************************)
(* Players (room/core.py, Game.sign_in / authenticate, PUT /players/self)  *)
(***************************************************************************)
PrivatePlayer(id, name, token, tutorial) ==
    [id |-> id, name |-> name, token |-> token, tutorial |-> tutorial]

\* The players a data directory written by _save can hold: one file per
\* player id.
StoredPlayers ==
    {PrivatePlayer("s1", "Ann", "t-s1", TRUE), PrivatePlayer("s2", "Bob", "t-s2", FALSE)}

\* randstr() and token_urlsafe() for the n-th player of the game.
PlayerId(n) == "p" \o ToString(n)
Token(n) == "t-p" \o ToString(n)

\* str.strip() of the names that are sent.
Strip(text) ==
    CASE text = " Zoe " -> "Zoe"
      [] text = " " -> ""
      [] OTHER -> text

\* PrivatePlayer.model_validate_json: _check fills in name and tutorial,
\* id and token are required, name is a Text (stripped, not empty). None
\* stands for a ValidationError.
PrivatePlayer_validate(data) ==
    LET name == IF "name" \in DOMAIN data THEN Strip(data.name) ELSE "Guest"
        tutorial == IF "tutorial" \in DOMAIN data THEN data.tutorial ELSE FALSE
    IN  IF {"id", "token"} \subseteq DOMAIN data /\ name # ""
        THEN Some(PrivatePlayer(data.id, name, data.token, tutorial))
        ELSE None

P == [players |-> players, tokens |-> tokens]

\* Game._add_player that leaves the token index alone.
add_player_unindexed(p, player) ==
    [p EXCEPT !.players = [x \in DOMAIN p.players \cup {player.id} |->
                              IF x = player.id THEN player ELSE p.players[x]]]

\* Game._add_player
add_player(p, player) ==
    [players |-> [x \in DOMAIN p.players \cup {player.id} |->
                     IF x = player.id THEN player ELSE p.players[x]],
     tokens |-> [t \in DOMAIN p.tokens \cup {player.token} |->
                    IF t = player.token THEN player.id ELSE p.tokens[t]]]

RECURSIVE add_players(_, _)
add_players(p, files) ==
    IF files = {} THEN p
    ELSE LET f == CHOOSE f \in files : TRUE
         IN  add_players(add_player(p, f), files \ {f})

\* Game.sign_in
sign_in(p) ==
    LET n == Cardinality(DOMAIN p.players) + 1
        player == PrivatePlayer_validate([id |-> PlayerId(n), token |-> Token(n),
                                          tutorial |-> FALSE])[1]
    IN  [p |-> add_player(p, player), result |-> player.id]

\* Game.authenticate answering with whatever player it finds first.
authenticate_anyone(p, token) ==
    IF DOMAIN p.players = {}
    THEN [raised |-> Raise("KeyError", token), result |-> None]
    ELSE [raised |-> None, result |-> Some(CHOOSE id \in DOMAIN p.players : TRUE)]

\* Game.authenticate
authenticate(p, token) ==
    IF token \in DOMAIN p.tokens
    THEN [raised |-> None, result |-> Some(p.tokens[token])]
    ELSE [raised |-> Raise("KeyError", token), result |-> None]

\* PrivatePlayer.update taking the token of the patch too.
update_with_token(p, id, patch) ==
    [p EXCEPT !.players[id].name = patch.name,
              !.players[id].tutorial = patch.tutorial,
              !.players[id].token = patch.token]

\* PrivatePlayer.update on the player object id
update(p, id, patch) ==
    [p EXCEPT !.players[id].name = patch.name,
              !.players[id].tutorial = patch.tutorial]

\* Game.run, the load of state/players at startup.
Load(files) ==
    /\ reply.op = "start"
    /\ LET p == add_players(P, files)
       IN  players' = p.players /\ tokens' = p.tokens
    /\ reply' = [op |-> "load"]
    /\ UNCHANGED gvars
    /\ UNCHANGED dvars

\* _authenticate for a request without a token cookie.
SignIn ==
    /\ Cardinality(DOMAIN players) < MaxPlayers
    /\ LET done == sign_in(P)
       IN  /\ players' = done.p.players
           /\ tokens' = done.p.tokens
           /\ reply' = [op |-> "sign_in", status |-> 200, player |-> Some(done.result)]
    /\ UNCHANGED gvars
    /\ UNCHANGED dvars

\* _authenticate for a request with a token cookie, and GET /players/self.
Authenticate(token) ==
    /\ LET found == authenticate(P, token)
       IN  reply' = [op |-> "authenticate", token |-> token,
                     status |-> IF found.raised = None THEN 200 ELSE 401,
                     player |-> found.result]
    /\ UNCHANGED <<players, tokens>>
    /\ UNCHANGED gvars
    /\ UNCHANGED dvars

\* PUT /players/self (_authenticate, then _put_current_player) with the
\* body data.
PutPlayer(token, data) ==
    /\ LET found == authenticate(P, token)
           patch == PrivatePlayer_validate(data)
       IN  IF found.raised # None
           THEN /\ reply' = [op |-> "put", token |-> token, data |-> data,
                             status |-> 401, player |-> None]
                /\ UNCHANGED <<players, tokens>>
           ELSE IF patch = None
           THEN /\ reply' = [op |-> "put", token |-> token, data |-> data,
                             status |-> 400, player |-> found.result]
                /\ UNCHANGED <<players, tokens>>
           ELSE LET p == update(P, found.result[1], patch[1])
                IN  /\ players' = p.players
                    /\ tokens' = p.tokens
                    /\ reply' = [op |-> "put", token |-> token, data |-> data,
                                 status |-> 200, player |-> found.result]
    /\ UNCHANGED gvars
    /\ UNCHANGED dvars

(***************************************************************************)
(* Room files (OfflineRoom, Tile) and player files                         *)
(***************************************************************************)
\* dict[key] = value on the JSON object data.
Put(data, key, value) ==
    [k \in DOMAIN data \cup {key} |-> IF k = key THEN value ELSE data[k]]

\* list[i:j] of a Python list, i and j not negative.
Slice(list, i, j) ==
    LET n == Len(list)
    IN  SubSeq(list, (IF i < n THEN i ELSE n) + 1, IF j < n THEN j ELSE n)

\* list[i:j] = values on a Python list, i and j not negative.
SliceAssign(list, i, j, values) ==
    LET n == Len(list)
    IN  SubSeq(list, 1, IF i < n THEN i ELSE n) \o values
            \o SubSeq(list, (IF j < n THEN j ELSE n) + 1, n)

\* list(dict.items()). The model's dicts carry no insertion order; the
\* items come in an order that is fixed for a dict but arbitrary.
RECURSIVE Items(_)
Items(f) ==
    IF DOMAIN f = {} THEN << >>
    ELSE LET k == CHOOSE k \in DOMAIN f : TRUE
         IN  << <<k, f[k]>> >> \o Items([x \in DOMAIN f \ {k} |-> f[x]])

\* dict(items): the last item of a key counts.
Dict(items) ==
    [k \in {items[i][1] : i \in 1..Len(items)} |->
        items[CHOOSE i \in 1..Len(items) :
                 /\ items[i][1] = k
                 /\ \A j \in (i + 1)..Len(items) : items[j][1] # k][2]]

\* OfflineRoom._check, the version update: a file without version or of a
\* version before 0.5 becomes a 0.5 file.
check_version(data) ==
    IF "version" \notin DOMAIN data \/ data.version \in {"0.1", "0.2", "0.3", "0.4"}
    THEN Put(data, "version", "0.5")
    ELSE data

\* OfflineRoom._check placing the old grid in the top left corner.
offset_corner == <<0, 0>>

\* OfflineRoom._check: where the old grid goes in the new one.
offset == <<(WIDTH - source_width) \div 2, (HEIGHT - source_height) \div 2>>

\* OfflineRoom._check, the loop over the rows of the old grid.
RECURSIVE check_rows(_, _, _)
check_rows(tile_ids, source, y) ==
    IF y >= source_height THEN tile_ids
    ELSE LET source_i == y * source_width
             i == offset[1] + (y + offset[2]) * WIDTH
         IN  check_rows(SliceAssign(tile_ids, i, i + source_width,
                                    Slice(source, source_i, source_i + source_width)),
                        source, y + 1)

\* OfflineRoom._check, the tile update: a grid of source_width x
\* source_height tiles is laid into a grid of WIDTH x HEIGHT tiles of the
\* first blueprint. None stands for an AssertionError.
check_tile_ids(data) ==
    IF "tile_ids" \notin DOMAIN data THEN None
    ELSE IF Len(data.tile_ids) # source_width * source_height THEN Some(data)
    ELSE IF "blueprints" \notin DOMAIN data THEN None
    ELSE IF data.blueprints = << >> THEN None
    ELSE LET void_id == data.blueprints[1][1]
         IN  Some(Put(data, "tile_ids",
                      check_rows([i \in 1..(WIDTH * HEIGHT) |-> void_id],
                                 data.tile_ids, 0)))

\* OfflineRoom._check giving every file the default title.
check_details_always(data) ==
    Put(IF "description" \in DOMAIN data THEN data ELSE Put(data, "description", None),
        "title", "New Room")

\* OfflineRoom._check, the details update.
check_details(data) ==
    LET titled == IF "title" \in DOMAIN data THEN data ELSE Put(data, "title", "New Room")
    IN  IF "description" \in DOMAIN titled THEN titled
        ELSE Put(titled, "description", None)

\* OfflineRoom._check, the validator that runs before a room file is
\* validated: the migration of room files. None stands for an
\* AssertionError.
OfflineRoom_check(data) ==
    LET sized == check_tile_ids(check_version(data))
    IN  IF sized = None THEN None ELSE Some(check_details(sized[1]))

\* Tile._dump_effects that writes no effects.
dump_effects_none(effects) == << >>

\* Tile._dump_effects: the dict as the list of its (cause, effects) items;
\* a cause is written as an object with its type.
dump_effects(effects) ==
    LET items == Items(effects)
    IN  [i \in 1..Len(items) |-> <<[type |-> items[i][1]], items[i][2]>>]

\* Tile._parse_effects: a list of (cause, effects) items as a dict.
parse_effects(effects) ==
    Dict([i \in 1..Len(effects) |-> <<effects[i][1].type, effects[i][2]>>])

\* A Tile as JSON.
Tile_dump(tile) ==
    [id |-> tile.id, image |-> tile.image, wall |-> tile.wall,
     effects |-> dump_effects(tile.effects)]

\* Tile validation of a JSON object: _parse supplies missing effects,
\* _parse_effects turns them into a dict, _check_image and min_length=1 of
\* every effect list are checked. None stands for a ValidationError.
Tile_validate(data) ==
    LET effects == parse_effects(IF "effects" \in DOMAIN data THEN data.effects
                                 ELSE << >>)
    IN  IF /\ {"id", "image", "wall"} \subseteq DOMAIN data
           /\ ValidImage(data.image)
           /\ \A c \in DOMAIN effects : c = UseCause /\ Len(effects[c]) >= 1
        THEN Some([id |-> data.id, image |-> data.image, wall |-> data.wall,
                   effects |-> effects])
        ELSE None

\* Game._OfflineRoomModel.dump_json: the fields of OfflineRoom (the roster
\* is a private attribute and is not written); the blueprints are a JSON
\* object, kept as the list of its (key, tile) members in their order.
OfflineRoom_dump_json(room) ==
    LET items == Items(room.blueprints)
    IN  [id |-> room.id, title |-> room.title, description |-> room.description,
         tile_ids |-> room.tile_ids,
         blueprints |-> [i \in 1..Len(items) |-> <<items[i][1], Tile_dump(items[i][2])>>],
         version |-> room.version]

\* OnlineRoom.model_validate_json: _check, then the fields are validated;
\* the room starts with an empty roster. None stands for a ValidationError.
OnlineRoom_validate_json(text) ==
    LET checked == OfflineRoom_check(text)
    IN  IF checked = None THEN None
        ELSE LET data == checked[1]
                 tiles == [i \in 1..Len(data.blueprints) |->
                              <<data.blueprints[i][1], Tile_validate(data.blueprints[i][2])>>]
             IN  IF /\ {"id", "title", "description", "tile_ids", "blueprints", "version"}
                          \subseteq DOMAIN data
                    /\ data.version = "0.5"
                    /\ Len(data.tile_ids) = WIDTH * HEIGHT
                    /\ ValidText(Strip(data.title))
                    /\ data.description = None \/ ValidText(Strip(data.description[1]))
                    /\ \A i \in 1..Len(tiles) : tiles[i][2] # None
                 THEN Some([id |-> data.id, title |-> Strip(data.title),
                            description |-> IF data.description = None THEN None
                                            ELSE Some(Strip(data.description[1])),
                            tile_ids |-> data.tile_ids,
                            blueprints |-> Dict([i \in 1..Len(tiles) |->
                                                    <<tiles[i][1], tiles[i][2][1]>>]),
                            version |-> data.version, members |-> << >>])
                 ELSE None

\* PrivatePlayer.model_dump_json
PrivatePlayer_dump_json(player) ==
    [id |-> player.id, name |-> player.name, token |-> player.token,
     tutorial |-> player.tutorial]

(***************************************************************************)
(* The data directory (Game.create_data_directory, run, _save)             *)
(***************************************************************************)
\* f'{id}.json'
FileName(id) == id \o ".json"

\* How a call of _save goes: it returns, the first mkdir raises an OSError
\* (nothing is written), writing the rooms raises one (the players are
\* written), or serializing the rooms raises something else.
SaveOutcomes == {"ok", "OSError", "OSError-rooms", "TypeError"}

\* What a call of _save of that outcome raises.
SaveRaises(fail) ==
    CASE fail = "ok" -> None
      [] fail = "OSError" -> Raise("OSError", "state")
      [] fail = "OSError-rooms" -> Raise("OSError", "rooms")
      [] fail = "TypeError" -> Raise("TypeError", "rooms")

\* Game._save on the directory d.
save(p, g, d, fail) ==
    LET made == [d EXCEPT !.state = TRUE]
        with_players ==
            [made EXCEPT !.players =
                [n \in DOMAIN @ \cup {FileName(id) : id \in DOMAIN p.players} |->
                    IF \E id \in DOMAIN p.players : n = FileName(id)
                    THEN PrivatePlayer_dump_json(
                             p.players[CHOOSE id \in DOMAIN p.players : n = FileName(id)])
                    ELSE @[n]]]
        with_rooms ==
            [with_players EXCEPT !.rooms =
                [n \in DOMAIN @ \cup {FileName(id) : id \in DOMAIN g.rooms} |->
                    IF \E id \in DOMAIN g.rooms : n = FileName(id)
                    THEN OfflineRoom_dump_json(
                             g.rooms[CHOOSE id \in DOMAIN g.rooms : n = FileName(id)])
                    ELSE @[n]]]
    IN  IF ~d.exists
        THEN [disk |-> d, raised |-> Raise("FileNotFoundError", "state")]
        ELSE [disk |-> CASE fail = "ok" -> with_rooms
                         [] fail = "OSError" -> d
                         [] OTHER -> with_players,
              raised |-> SaveRaises(fail)]

\* create_data_directory touching the marker before it saves.
create_data_directory_marker_first(p, g, d, fail) ==
    IF d.exists
    THEN [disk |-> d, raised |-> Raise("FileExistsError", "data")]
    ELSE LET saved == save(p, g, [d EXCEPT !.exists = TRUE, !.marker = TRUE], fail)
         IN  saved

\* Game.create_data_directory
create_data_directory(p, g, d, fail) ==
    IF d.exists
    THEN [disk |-> d, raised |-> Raise("FileExistsError", "data")]
    ELSE LET saved == save(p, g, [d EXCEPT !.exists = TRUE], fail)
         IN  IF saved.raised # None THEN saved
             ELSE [disk |-> [saved.disk EXCEPT !.marker = TRUE], raised |-> None]

\* Game.run, the loop over state/players. iterdir() yields the files in an
\* arbitrary order.
RECURSIVE load_players(_, _)
load_players(p, files) ==
    IF DOMAIN files = {} THEN [p |-> p, raised |-> None]
    ELSE LET n == CHOOSE n \in DOMAIN files : TRUE
             player == PrivatePlayer_validate(files[n])
         IN  IF player = None
             THEN [p |-> p, raised |-> Raise("ValidationError", n)]
             ELSE load_players(add_player(p, player[1]),
                               [x \in DOMAIN files \ {n} |-> files[x]])

\* Game.run, the loop over state/rooms.
RECURSIVE load_rooms(_, _)
load_rooms(g, files) ==
    IF DOMAIN files = {} THEN [g |-> g, raised |-> None]
    ELSE LET n == CHOOSE n \in DOMAIN files : TRUE
             room == OnlineRoom_validate_json(files[n])
         IN  IF room = None
             THEN [g |-> g, raised |-> Raise("ValidationError", n)]
             ELSE load_rooms([g EXCEPT !.rooms = Put(@, room[1].id, room[1])],
                             [x \in DOMAIN files \ {n} |-> files[x]])

\* Game.run up to its loop: the marker update, the check of the marker, the
\* move of flat room files to state/rooms, and the load.
run_load(p, g, d) ==
    LET legacy == d.other = {} /\ ~d.state /\ ~d.marker
        marked == IF legacy THEN [d EXCEPT !.marker = TRUE] ELSE d
        moved == [marked EXCEPT
                    !.state = TRUE,
                    !.rooms = [n \in DOMAIN @ \cup DOMAIN marked.flat |->
                                  IF n \in DOMAIN marked.flat THEN marked.flat[n]
                                  ELSE @[n]],
                    !.flat = << >>]
        loaded_players == load_players(p, moved.players)
        loaded_rooms == load_rooms(g, moved.rooms)
    IN  IF ~d.exists
        THEN [p |-> p, g |-> g, disk |-> d, raised |-> Raise("FileNotFoundError", "data")]
        ELSE IF ~marked.marker
        THEN [p |-> p, g |-> g, disk |-> marked,
              raised |-> Raise("OSError", "[Errno 22] Bad Room data directory")]
        ELSE IF loaded_players.raised # None
        THEN [p |-> loaded_players.p, g |-> g, disk |-> moved,
              raised |-> loaded_players.raised]
        ELSE [p |-> loaded_players.p, g |-> loaded_rooms.g, disk |-> moved,
              raised |-> loaded_rooms.raised]

\* The loop of Game.run ended by a failing save.
run_sleep_fatal(p, g, d, r, cancelled, fail) ==
    LET saved == save(p, g, d, fail)
    IN  [disk |-> saved.disk,
         run |-> [r EXCEPT
                    !.saves = @ + 1,
                    !.saved = saved.raised,
                    !.state = IF cancelled THEN "cancelled"
                              ELSE IF saved.raised # None THEN "failed" ELSE @,
                    !.raised = IF cancelled THEN Raise("CancelledError", "")
                               ELSE saved.raised]]

\* The loop of Game.run with a failing save swallowing the cancellation.
run_sleep_swallowing(p, g, d, r, cancelled, fail) ==
    LET saved == save(p, g, d, fail)
    IN  [disk |-> saved.disk,
         run |-> [r EXCEPT
                    !.saves = @ + 1,
                    !.saved = saved.raised,
                    !.logged = IF saved.raised # None THEN @ + 1 ELSE @,
                    !.state = IF cancelled /\ saved.raised = None THEN "cancelled" ELSE @,
                    !.raised = IF cancelled /\ saved.raised = None
                               THEN Raise("CancelledError", "") ELSE @]]

\* One iteration of the loop of Game.run: sleep returns after the save
\* interval or raises CancelledError; the finally clause saves, its except
\* clauses log an OSError and any other Exception; then the loop goes on or
\* the CancelledError leaves run.
run_sleep(p, g, d, r, cancelled, fail) ==
    LET saved == save(p, g, d, fail)
    IN  [disk |-> saved.disk,
         run |-> [r EXCEPT
                    !.saves = @ + 1,
                    !.saved = saved.raised,
                    !.logged = IF saved.raised # None THEN @ + 1 ELSE @,
                    !.state = IF cancelled THEN "cancelled" ELSE @,
                    !.raised = IF cancelled THEN Raise("CancelledError", "") ELSE @]]

\* A Game is made for the data_path at which there is dir.
Mount(dir) ==
    /\ run.state = "init"
    /\ disk' = dir
    /\ run' = [run EXCEPT !.state = "mounted", !.op = "mount"]
    /\ UNCHANGED gvars
    /\ UNCHANGED pvars

\* Game.create_data_directory is called.
CreateDataDirectory(fail) ==
    /\ run.state = "mounted"
    /\ LET done == create_data_directory(P, G, disk, fail)
       IN  /\ disk' = done.disk
           /\ run' = [run EXCEPT !.state = "created", !.raised = done.raised,
                                 !.op = "create"]
    /\ UNCHANGED gvars
    /\ UNCHANGED pvars

\* Game.run is started and runs up to its first sleep, or raises.
RunGame ==
    /\ run.state \in {"mounted", "created"}
    /\ LET done == run_load(P, G, disk)
       IN  /\ Becomes(done.g)
           /\ players' = done.p.players
           /\ tokens' = done.p.tokens
           /\ disk' = done.disk
           /\ run' = [run EXCEPT
                        !.state = IF done.raised = None THEN "sleeping" ELSE "failed",
                        !.raised = done.raised, !.op = "run"]
    /\ UNCHANGED <<conn, action, error, sent, handled, entered, reply>>

\* The save interval is over.
Tick(fail) ==
    /\ run.state = "sleeping"
    /\ run.saves < MaxSaves
    /\ LET done == run_sleep(P, G, disk, run, FALSE, fail)
       IN  /\ disk' = done.disk
           /\ run' = [done.run EXCEPT !.op = "tick"]
    /\ UNCHANGED gvars
    /\ UNCHANGED pvars

\* The task of Game.run is cancelled while it sleeps.
Cancel(fail) ==
    /\ run.state = "sleeping"
    /\ LET done == run_sleep(P, G, disk, run, TRUE, fail)
       IN  /\ disk' = done.disk
           /\ run' = [done.run EXCEPT !.op = "cancel"]
    /\ UNCHANGED gvars
    /\ UNCHANGED pvars

(***************************************************************************)
(* Inbound messages                                                        *)
(***************************************************************************)
TileIndexInputs == {-NTILES - 1, -NTILES, -1, 0, NTILES - 1, NTILES}
PositionInputs ==
    {<<1, 2>>, <<0, 0>>, <<WIDTH * SIZE - 1, HEIGHT * SIZE - 1>>,
     <<WIDTH * SIZE, 0>>, <<0, HEIGHT * SIZE>>, <<-1, 2>>, <<1, -1>>}
BlueprintInputs ==
    {[Tile("", FALSE, OnUse(<<TransformTileEffect("grass")>>)) EXCEPT !.image = "png:floor"],
     [Tile("void", TRUE, OnUse(<<TransformTileEffect("wall-door-open")>>))
         EXCEPT !.image = "png:grass"],
     [Tile("void", TRUE, OnUse(<<TransformTileEffect("nope")>>)) EXCEPT !.image = "png:void"],
     [Tile("", TRUE, OnUse(<<FollowLinkEffect(Url(ApiUrl, "/invites/meow"), None),
                             TransformTileEffect("nope")>>)) EXCEPT !.image = "png:void"],
     [Tile("nope", FALSE, NoEffects) EXCEPT !.image = "png:grass"]}

\* What a client that knows its member id m and its room r sends to
\* exercise the performers.
PerformInputs(m, r) ==
    {[member_id |-> m, position |-> p] : p \in PositionInputs}
    \cup {[member_id |-> m, tile_index |-> i, blueprint_id |-> b] :
            i \in TileIndexInputs, b \in {"wall-door-closed", "nope"}}
    \cup {[member_id |-> m, tile_index |-> i, effects |-> << >>] : i \in {-1, 0, NTILES}}
    \cup {[member_id |-> m, tile_index |-> 0, effects |-> <<TransformTileEffect("grass")>>]}
    \cup {[member_id |-> m, room |-> BaseRoom(id, "Title", Some("About"))] :
            id \in {r, "elsewhere"}}
    \cup {[member_id |-> m, blueprint |-> b] : b \in BlueprintInputs}

\* A small set for the runs that follow the connection protocol: an action
\* that is performed, two that fail, a message that does not decode, one
\* that is not text, and actions in the name of somebody else.
ProtocolInputs(m, r) ==
    {[member_id |-> m, position |-> <<1, 2>>],
     [member_id |-> m, tile_index |-> NTILES, blueprint_id |-> "grass"],
     [member_id |-> m, tile_index |-> 0, blueprint_id |-> "nope"],
     [junk |-> TRUE],
     [binary |-> TRUE]}
    \cup UNION {{[member_id |-> o, position |-> <<1, 2>>],
                 [member_id |-> o, tile_index |-> 0, blueprint_id |-> "grass"]} :
                    o \in IF DOMAIN members \ {m} = {} THEN {"nobody"}
                          ELSE DOMAIN members \ {m}}

\* Two actions that are performed and published.
DeliverInputs(m, r) ==
    {[member_id |-> m, position |-> <<1, 2>>],
     [member_id |-> m, tile_index |-> 0, blueprint_id |-> "grass"]}

\* randstr() is called for a blueprint without id only.
Fresh(data) ==
    IF "blueprint" \in DOMAIN data THEN MintedIds ELSE {""}

\* Moves to the corners of the room, to just outside of it and to (-1, -1).
MoveInputs(m, r) ==
    {[member_id |-> m, position |-> p] :
        p \in {<<0, 0>>, <<WIDTH * SIZE - 1, HEIGHT * SIZE - 1>>, <<WIDTH * SIZE, 0>>,
               <<0, HEIGHT * SIZE>>, <<-1, -1>>}}

\* The connection protocol: joining, the message loop, leaving.
Next ==
    \/ CreateRoom
    \/ \E c \in Conns, r \in RoomIds : Enter(c, r)
    \/ \E c \in Conns : \E data \in ProtocolInputs(conn[c].member, conn[c].room) :
          \E fresh \in Fresh(data) : Receive(c, data, fresh)
    \/ \E c \in Conns : Close(c)
    \/ \E c \in Conns : Leave(c)
    \/ \E c \in Conns : Abort(c)

Spec == Init /\ [][Next]_vars

\* The performers, on every kind of action.
NextPerform ==
    \/ CreateRoom
    \/ \E c \in Conns, r \in RoomIds : Enter(c, r)
    \/ \E c \in Conns : \E data \in PerformInputs(conn[c].member, conn[c].room) :
          \E fresh \in Fresh(data) : Receive(c, data, fresh)

SpecPerform == Init /\ [][NextPerform]_vars

\* Members moving about while others join and leave.
NextMove ==
    \/ CreateRoom
    \/ \E c \in Conns, r \in RoomIds : Enter(c, r)
    \/ \E c \in Conns : \E data \in MoveInputs(conn[c].member, conn[c].room) :
          \E fresh \in Fresh(data) : Receive(c, data, fresh)
    \/ \E c \in Conns : Close(c)
    \/ \E c \in Conns : Leave(c)
    \/ \E c \in Conns : Abort(c)

SpecMove == Init /\ [][NextMove]_vars

\* The token cookies that are sent: those of the stored players, of the
\* first players signed in, and one that was never issued.
TokenInputs == {"t-s1", "t-s2", Token(1), Token(2), "forged"}

\* The bodies that are put by the player id that sends the cookie token:
\* with its own id and token, with those of somebody else, with made-up
\* ones, with a blank name, and without id and token.
PatchInputs(id, token) ==
    {[id |-> id, token |-> token, name |-> "Zoe", tutorial |-> TRUE],
     [id |-> "s1", token |-> "t-s1", name |-> " Zoe ", tutorial |-> FALSE],
     [id |-> "forged", token |-> "forged"],
     [id |-> id, token |-> "forged", name |-> " ", tutorial |-> TRUE],
     [name |-> "Zoe", tutorial |-> TRUE]}

\* Players signing in, coming back with their token and updating themselves.
NextPlayers ==
    \/ \E files \in SUBSET StoredPlayers : Load(files)
    \/ SignIn
    \/ \E token \in TokenInputs : Authenticate(token)
    \/ \E token \in TokenInputs :
          \E data \in PatchInputs(IF token \in DOMAIN tokens THEN tokens[token]
                                   ELSE "nobody", token) :
              PutPlayer(token, data)

SpecPlayers == Init /\ [][NextPlayers]_vars

\* Delivery: the write tasks run beside the message loops; the number of
\* publish calls of a run is capped.
NextDeliver ==
    \/ CreateRoom
    \/ Len(log) < MaxPublished /\ \E c \in Conns, r \in RoomIds : Enter(c, r)
    \/ Len(log) < MaxPublished /\
          \E c \in Conns : \E data \in DeliverInputs(conn[c].member, conn[c].room) :
              \E fresh \in Fresh(data) : Receive(c, data, fresh)
    \/ \E c \in Conns : Write(c)
    \/ \E c \in Conns : Close(c)
    \/ Len(log) < MaxPublished /\ \E c \in Conns : Leave(c)
    \/ \E c \in Conns : Abort(c)

SpecDeliver == Init /\ [][NextDeliver]_vars

\* The write task of a connection is a task of the event loop: while there
\* is an action on the queue of its member, Queue.get returns and the task
\* is run again, so it cannot be passed over forever.
SpecDeliverFair == SpecDeliver /\ \A c \in Conns : WF_vars(Write(c))

\* A tile as a room file holds it; effects is the list of (cause, effects)
\* items, or None for a tile written before tiles had effects.
TileFile(id, wall, effects) ==
    IF effects = None THEN [id |-> id, image |-> "png:" \o id, wall |-> wall]
    ELSE [id |-> id, image |-> "png:" \o id, wall |-> wall, effects |-> effects[1]]

\* The blueprints of the stored room files, floor first.
StoredBlueprints ==
    << <<"floor", TileFile("floor", FALSE, None)>>,
       <<"void", TileFile("void", FALSE, Some(<< >>))>>,
       <<"grass", TileFile("grass", FALSE, None)>>,
       <<"wall-door-closed",
         TileFile("wall-door-closed", TRUE,
                  Some(<< <<[type |-> "UseCause"],
                            <<TransformTileEffect("wall-door-open")>> >> >>))>>,
       <<"wall-door-open",
         TileFile("wall-door-open", FALSE,
                  Some(<< <<[type |-> "UseCause"],
                            <<TransformTileEffect("wall-door-closed"),
                              FollowLinkEffect(Url("", "/invites/meow"),
                                               Some(Link(Url("", "/invites/meow"),
                                                         "Meow")))>> >> >>))>> >>

\* A legacy grid of source_width x source_height tiles whose borders differ
\* from each other and from the first blueprint.
LegacyGrid ==
    [i \in 1..(source_width * source_height) |->
        LET x == (i - 1) % source_width
            y == (i - 1) \div source_width
        IN  IF x = 0 THEN "grass"
            ELSE IF y = 0 THEN "wall-door-closed"
            ELSE IF x = source_width - 1 THEN "wall-door-open"
            ELSE IF y = source_height - 1 THEN "void"
            ELSE "floor"]

\* Room files: a legacy file without version, title and description, a
\* legacy file of version 0.4 that has them, a file of the current version
\* as _save writes it, and a JSON file that is no room.
LegacyRoomFile ==
    [id |-> "ra", tile_ids |-> LegacyGrid, blueprints |-> StoredBlueprints]
TitledLegacyRoomFile ==
    [id |-> "rl", version |-> "0.4", title |-> "Cellar", description |-> Some("Below"),
     tile_ids |-> LegacyGrid, blueprints |-> StoredBlueprints]
CurrentRoomFile ==
    [id |-> "ra", version |-> "0.5", title |-> "Lobby", description |-> None,
     tile_ids |-> [i \in 1..(WIDTH * HEIGHT) |->
                      IF i = 1 THEN "wall-door-open" ELSE "floor"],
     blueprints |-> StoredBlueprints]
OtherJsonFile == [name |-> "package", private |-> TRUE]

\* Directories a Game is pointed at: none, an empty one, one of another
\* program with and without files that are not *.json, a legacy directory
\* of flat room files, and a data directory with a marker, whose rooms were
\* written by this and by an older version.
DirectoryInputs ==
    {NoDirectory,
     [NoDirectory EXCEPT !.exists = TRUE],
     [NoDirectory EXCEPT !.exists = TRUE, !.other = {"notes.txt"}],
     [NoDirectory EXCEPT !.exists = TRUE,
                         !.flat = [n \in {"package.json"} |-> OtherJsonFile]],
     [NoDirectory EXCEPT !.exists = TRUE,
                         !.flat = [n \in {"ra.json", "rl.json"} |->
                                      IF n = "ra.json" THEN LegacyRoomFile
                                      ELSE TitledLegacyRoomFile]],
     [NoDirectory EXCEPT !.exists = TRUE, !.marker = TRUE, !.state = TRUE,
                         !.players = [n \in {FileName(f.id) : f \in StoredPlayers} |->
                                         CHOOSE f \in StoredPlayers : n = FileName(f.id)],
                         !.rooms = [n \in {"ra.json", "rl.json"} |->
                                       IF n = "ra.json" THEN CurrentRoomFile
                                       ELSE TitledLegacyRoomFile]]}

\* The data directory over the life of a process: it is created or found,
\* the game is loaded and runs, with players signing in and a connection
\* acting in a room while the game is saved, until run is cancelled.
NextData ==
    \/ \E dir \in DirectoryInputs : Mount(dir)
    \/ \E fail \in SaveOutcomes : CreateDataDirectory(fail)
    \/ RunGame
    \/ \E fail \in SaveOutcomes : Tick(fail)
    \/ \E fail \in SaveOutcomes : Cancel(fail)
    \/ run.state \in {"mounted", "sleeping"} /\ SignIn
    \/ run.state \in {"mounted", "sleeping"} /\ CreateRoom
    \/ run.state = "sleeping" /\ \E r \in RoomIds : Enter("c1", r)
    \/ run.state = "sleeping" /\
          \E data \in DeliverInputs(conn["c1"].member, conn["c1"].room) :
              \E fresh \in Fresh(data) : Receive("c1", data, fresh)

SpecData == Init /\ [][NextData]_vars

\* A step of Tick, told by what it does to run: one more save attempt of
\* the loop, which goes on sleeping.
TimerFires ==
    /\ run.state = "sleeping"
    /\ run.saves < MaxSaves
    /\ \E fail \in SaveOutcomes :
          run' = [run EXCEPT !.saves = @ + 1,
                             !.saved = SaveRaises(fail),
                             !.logged = IF fail = "ok" THEN @ ELSE @ + 1,
                             !.op = "tick"]

\* sleep() returns when the save interval is over, unless the task is
\* cancelled before: the steps of Tick are taken when they stay possible.
SpecSaveLoop == SpecData /\ WF_run(TimerFires)

\* The room ids of a game with two rooms.
TwoRoomIds == {"ra", "rb"}

\* What is sent in a game with two rooms: actions that change the room and
\* its blueprints, an update that names the other room, and actions in the
\* name of a member of another room.
RoomsInputs(m, r) ==
    {[member_id |-> m, tile_index |-> 0, blueprint_id |-> "wall-door-closed"],
     [member_id |-> m, tile_index |-> 0, effects |-> << >>],
     [member_id |-> m, blueprint |->
         [Tile("void", TRUE, OnUse(<<TransformTileEffect("wall-door-open")>>))
             EXCEPT !.image = "png:grass"]]}
    \cup {[member_id |-> m, room |-> BaseRoom(id, "Title", Some("About"))] :
            id \in TwoRoomIds}
    \cup {[member_id |-> o, tile_index |-> 0, blueprint_id |-> "grass"] :
            o \in {o \in DOMAIN members : members[o].room_id # r}}

\* Two rooms, created at any time, with members acting in each.
NextRooms ==
    \/ \E id \in TwoRoomIds : PostRoom(id)
    \/ \E c \in Conns, r \in TwoRoomIds : Enter(c, r)
    \/ \E c \in Conns : \E data \in RoomsInputs(conn[c].member, conn[c].room) :
          \E fresh \in Fresh(data) : Receive(c, data, fresh)

SpecRooms == Init /\ [][NextRooms]_vars

\* The JSON of the WelcomeAction that member m of room r is sent, as a
\* client that sends it back would have it, and with another title.
WelcomeMessages(m, r) ==
    IF r \notin DOMAIN rooms THEN {}
    ELSE LET welcome == model_dump_json(G, WelcomeAction(m, with_members(G, r)))
         IN  {welcome, [welcome EXCEPT !.room.title = "Hall"]}

\* What a client sends about blueprints: a blueprint with two effects of one
\* kind, one with effects of two kinds, one whose list of effects is empty,
\* a new blueprint, a use of the first tile, a tile placed next to it, a
\* move, and the actions that only the server sends.
EditInputs(m, r) ==
    {[member_id |-> m, blueprint |->
         Tile("void", FALSE, OnUse(<<TransformTileEffect("grass"),
                                     TransformTileEffect("floor")>>))],
     [member_id |-> m, blueprint |->
         Tile("void", FALSE, OnUse(<<FollowLinkEffect(Url("", "/invites/meow"), None),
                                     TransformTileEffect("grass")>>))],
     [member_id |-> m, blueprint |-> Tile("void", FALSE, OnUse(<< >>))],
     [member_id |-> m, blueprint |->
         [Tile("", TRUE, OnUse(<<TransformTileEffect("void")>>)) EXCEPT !.image = "png:grass"]],
     [member_id |-> m, tile_index |-> 0, effects |-> << >>],
     [member_id |-> m, tile_index |-> 1, blueprint_id |-> "grass"],
     [member_id |-> m, position |-> <<1, 2>>],
     FailedAction(m, "Unknown index")}
    \cup WelcomeMessages(m, r)

\* A room whose blueprints are edited and whose tiles are used by a member,
\* and on whose blueprints Tile.cause is called for tiles in and out of the
\* grid.
NextBlueprints ==
    \/ CreateRoom
    \/ \E r \in RoomIds : Enter("c1", r)
    \/ \E data \in EditInputs(conn["c1"].member, conn["c1"].room) :
          \E fresh \in Fresh(data) : Receive("c1", data, fresh)
    \/ \E r \in RoomIds : \E id \in {"void", "floor"} : \E tile_index \in {0, -1, NTILES} :
          Cause(r, id, UseCause, tile_index)

SpecBlueprints == Init /\ [][NextBlueprints]_vars

\* Two rooms with members entering, and link_member and unlink_member
\* called on any room with any member.
NextRoster ==
    \/ \E id \in TwoRoomIds : PostRoom(id)
    \/ \E c \in Conns, r \in TwoRoomIds : Enter(c, r)
    \/ \E r \in TwoRoomIds : \E m \in DOMAIN members : LinkMember(r, m)
    \/ \E r \in TwoRoomIds : \E m \in DOMAIN members : UnlinkMember(r, m)

SpecRoster == Init /\ [][NextRoster]_vars

\* Two rooms with connections that enter a room, move in it and leave it
\* again, in any order, one way or the other.
NextMembers ==
    \/ \E id \in TwoRoomIds : PostRoom(id)
    \/ \E c \in Conns, r \in TwoRoomIds : Enter(c, r)
    \/ \E c \in Conns : Receive(c, [member_id |-> conn[c].member, position |-> <<1, 2>>], "")
    \/ \E c \in Conns : Close(c)
    \/ \E c \in Conns : Leave(c)
    \/ \E c \in Conns : Abort(c)

SpecMembers == Init /\ [][NextMembers]_vars


(***************************************************************************)
(* Properties                                                              *)
(***************************************************************************)
\* The room of connection c and the members linked to it.
RoomOf(c) == rooms[conn[c].room]
Linked(r) == Range(rooms[r].members)
Inside(c) == conn[c].state \in {"active", "leaving"}

\* Connection c handles a message in this step; action'[c] and error'[c]
\* are what the iteration decoded and how it ended.
Receives(c) == handled'[c] = handled[c] + 1
Failed(c) == error'[c] # None
Acts(c, type) ==
    /\ Receives(c)
    /\ action'[c] # None
    /\ action'[c][1].type = type
    /\ action'[c][1].member_id = conn[c].member

\* What the write task of connection c has sent (a FailedAction is sent by
\* the message loop, not by the write task).
Delivered(c) == SelectSeq(sent[c], LAMBDA a : a.type # "FailedAction")

\* The actions published to member m, in publish order: those published to
\* its room while it was linked and those published to it alone.
Expected(m) ==
    LET mine == SelectSeq(log, LAMBDA e : m \in e.to)
    IN  [i \in 1..Len(mine) |-> mine[i].action]

\* The room files of the data directory: the flat ones and those of
\* state/rooms.
RoomFiles ==
    {disk.flat[n] : n \in DOMAIN disk.flat} \cup {disk.rooms[n] : n \in DOMAIN disk.rooms}

\* A sent action is the published action a (a WelcomeAction gains the
\* roster when it is serialized).
IsSent(x, a) ==
    IF a.type = "WelcomeAction"
    THEN /\ x.type = "WelcomeAction"
         /\ x.member_id = a.member_id
         /\ x.room.tile_ids = a.room.tile_ids
         /\ x.room.blueprints = a.room.blueprints
    ELSE x = a

\* C1: for every connection, what its write task has delivered, followed by
\* what still waits in the member's queue, is exactly the sequence of actions
\* published to the member's room while the member was linked plus those
\* published to the member alone, in publish order. Every member so sees a
\* subsequence of the one publish log, so two members see the actions they
\* share in the same order.
C1_DeliveryInPublishOrder ==
    \A c \in Conns :
        conn[c].member # "" =>
            LET m == conn[c].member
                got == Delivered(c)
                all == Expected(m)
            IN  /\ Len(got) + Len(queue[m]) = Len(all)
                /\ \A i \in 1..Len(got) : IsSent(got[i], all[i])
                /\ \A i \in 1..Len(queue[m]) : queue[m][i] = all[Len(got) + i]

\* A member has been sent its arrival, the welcome and an action of another
\* member, while a second member has been sent that action too.
C1_Witness ==
    \E c, d \in Conns :
        /\ c # d
        /\ Len(sent[c]) >= 3
        /\ sent[c][1].type = "MoveMemberAction"
        /\ sent[c][2].type = "WelcomeAction"
        /\ \E i \in 1..Len(sent[c]), j \in 1..Len(sent[d]) :
              /\ sent[c][i] = sent[d][j]
              /\ sent[c][i].type = "PlaceTileAction"
              /\ sent[c][i].member_id = conn[d].member


\* C2: a PlaceTileAction with tile_index in [0, WIDTH*HEIGHT) and a
\* blueprint_id the room knows makes room.tiles[tile_index].id the
\* blueprint_id, leaves every other cell and all blueprints as they were, and
\* puts the action, unchanged, at the end of the queue of every member linked
\* to the room, the actor among them.
C2_PlaceTilePlacesAndBroadcasts ==
    [][\A c \in Conns :
          Acts(c, "PlaceTileAction") =>
              LET a == action'[c][1]
                  r == conn[c].room
                  i == a.tile_index + 1
              IN  (/\ 0 <= a.tile_index /\ a.tile_index < WIDTH * HEIGHT
                   /\ a.blueprint_id \in DOMAIN rooms[r].blueprints)
                  => /\ rooms'[r].blueprints[rooms'[r].tile_ids[i]].id = a.blueprint_id
                     /\ \A j \in 1..(WIDTH * HEIGHT) \ {i} :
                           rooms'[r].tile_ids[j] = rooms[r].tile_ids[j]
                     /\ rooms'[r].blueprints = rooms[r].blueprints
                     /\ conn[c].member \in Linked(r)
                     /\ \A m \in Linked(r) : queue'[m] = Append(queue[m], a)
                     /\ ~Failed(c)]_vars

\* Two members are linked, one has placed a door on the last cell, and both
\* have the action at the end of their queues.
C2_Witness ==
    \E c \in Conns :
        /\ conn[c].state = "active"
        /\ Cardinality(Linked(conn[c].room)) = 2
        /\ action[c] # None
        /\ action[c][1] = PlaceTileAction(conn[c].member, WIDTH * HEIGHT - 1,
                                          "wall-door-closed")
        /\ error[c] = None
        /\ RoomOf(c).tile_ids[WIDTH * HEIGHT] = "wall-door-closed"
        /\ \A m \in Linked(conn[c].room) : queue[m][Len(queue[m])] = action[c][1]

\* C3: a PlaceTileAction fails with an index error for every tile_index
\* outside [0, WIDTH*HEIGHT), negative ones included, and with a not-found
\* error for every blueprint_id the room does not know; in both cases tile_ids
\* is unchanged and nothing is broadcast.
C3_PlaceTileRejectsBadInput ==
    [][\A c \in Conns :
          Acts(c, "PlaceTileAction") =>
              LET a == action'[c][1]
                  r == conn[c].room
                  badIndex == ~(0 <= a.tile_index /\ a.tile_index < WIDTH * HEIGHT)
                  badBlueprint == a.blueprint_id \notin DOMAIN rooms[r].blueprints
              IN  /\ (badIndex \/ badBlueprint)
                        => /\ Failed(c)
                           /\ rooms'[r].tile_ids = rooms[r].tile_ids
                           /\ queue' = queue
                  /\ (badIndex /\ ~badBlueprint) => error'[c] = Some("Unknown index")
                  /\ (badBlueprint /\ ~badIndex)
                        => error'[c] = Some("Unknown key " \o a.blueprint_id)]_vars

\* C4: a MoveMemberAction with 0 <= x < WIDTH*Tile.SIZE and
\* 0 <= y < HEIGHT*Tile.SIZE sets the position of the acting member, and of
\* nobody else, to that value and broadcasts the action to the room; for any
\* other position it fails as out of range, no position changes and nothing
\* is broadcast.
C4_MoveMemberInBoundsOnly ==
    [][\A c \in Conns :
          Acts(c, "MoveMemberAction") =>
              LET a == action'[c][1]
                  m == conn[c].member
                  r == conn[c].room
              IN  IF /\ 0 <= a.position[1] /\ a.position[1] < WIDTH * SIZE
                     /\ 0 <= a.position[2] /\ a.position[2] < HEIGHT * SIZE
                  THEN /\ members'[m].position = a.position
                       /\ \A o \in DOMAIN members \ {m} : members'[o] = members[o]
                       /\ \A k \in Linked(r) : queue'[k] = Append(queue[k], a)
                       /\ ~Failed(c)
                  ELSE /\ error'[c] = Some("Out-of-range position " \o PyTuple(a.position))
                       /\ members' = members
                       /\ queue' = queue
                       /\ log' = log]_vars

\* One member has moved to the last position inside the room, the other has
\* been refused a position just outside and has stayed at the centre.
C4_Witness ==
    \E c, d \in Conns :
        /\ c # d
        /\ action[c] # None /\ action[c][1].type = "MoveMemberAction"
        /\ error[c] = None
        /\ members[conn[c].member].position = <<WIDTH * SIZE - 1, HEIGHT * SIZE - 1>>
        /\ action[d] # None /\ action[d][1].type = "MoveMemberAction"
        /\ action[d][1].position = <<WIDTH * SIZE, 0>>
        /\ error[d] = Some("Out-of-range position (128, 0)")
        /\ members[conn[d].member].position = <<(WIDTH * SIZE) \div 2, (HEIGHT * SIZE) \div 2>>

\* C5: in the message loop, every decoded action whose member_id is not the
\* connection's own member id is refused before a performer runs: the
\* connection is sent FailedAction('Forbidden action'), and no room, no member,
\* no queue and nothing published changes.
C5_ForeignActionForbidden ==
    [][\A c \in Conns :
          (/\ Receives(c)
           /\ action'[c] # None
           /\ action'[c][1].member_id # conn[c].member)
          => /\ error'[c] = Some("Forbidden action")
             /\ sent'[c] = Append(sent[c], FailedAction(conn[c].member, "Forbidden action"))
             /\ UNCHANGED <<rooms, members, queue, log>>]_vars

\* A connection has sent a well-formed action in the name of the other
\* member of its room and has been answered with the FailedAction.
C5_Witness ==
    \E c \in Conns :
        /\ conn[c].state = "active"
        /\ action[c] # None
        /\ action[c][1].member_id # conn[c].member
        /\ action[c][1].member_id \in Linked(conn[c].room)
        /\ error[c] = Some("Forbidden action")
        /\ sent[c] # << >>
        /\ sent[c][Len(sent[c])] = FailedAction(conn[c].member, "Forbidden action")

\* C6: for every inbound message whose decoding or performer fails, exactly
\* one FailedAction, carrying the error, is sent on the connection the
\* message came from and on no other; no FailedAction is put on any member's
\* queue; the connection stays active with its member, and the member stays
\* on the roster and in game.members.
C6_FailureAnsweredOnce ==
    [][\A c \in Conns :
          (Receives(c) /\ Failed(c))
          => /\ sent'[c] = Append(sent[c], FailedAction(conn[c].member, error'[c][1]))
             /\ \A d \in Conns \ {c} : sent'[d] = sent[d]
             /\ \A k \in DOMAIN queue' : \A i \in 1..Len(queue'[k]) :
                   queue'[k][i].type # "FailedAction"
             /\ conn'[c] = conn[c]
             /\ conn[c].state = "active"
             /\ conn[c].member \in Range(rooms'[conn[c].room].members)
             /\ conn[c].member \in DOMAIN members']_vars

\* A connection has been answered with a FailedAction for its first message
\* and has gone on to handle a second one, which was performed.
C6_Witness ==
    \E c \in Conns :
        /\ conn[c].state = "active"
        /\ handled[c] = 2
        /\ Len(sent[c]) = 1
        /\ sent[c][1].type = "FailedAction"
        /\ error[c] = None
        /\ action[c] # None

\* C7: whenever the performer of a client action (of any of the five kinds)
\* fails, the room (tile_ids, blueprints, title, description, roster), every
\* member's position and every member's queue are as before the message.
C7_FailedPerformChangesNothing ==
    [][\A c \in Conns :
          (/\ Receives(c)
           /\ action'[c] # None
           /\ action'[c][1].member_id = conn[c].member
           /\ Failed(c))
          => /\ rooms' = rooms
             /\ members' = members
             /\ queue' = queue]_vars

\* An UpdateBlueprintAction of one member and a UseAction of another have
\* both failed, with two members in the room.
C7_Witness ==
    \E c, d \in Conns :
        /\ c # d
        /\ action[c] # None /\ action[c][1].type = "UpdateBlueprintAction"
        /\ action[c][1].member_id = conn[c].member
        /\ error[c] # None
        /\ action[d] # None /\ action[d][1].type = "UseAction"
        /\ action[d][1].member_id = conn[d].member
        /\ error[d] # None

\* C8: in every state reached from create_room by PlaceTileAction,
\* UseAction, UpdateBlueprintAction and UpdateRoomAction, performed or
\* failed, every id of tile_ids is a key of blueprints and tile_ids has
\* WIDTH*HEIGHT entries.
C8_TileIdsResolve ==
    \A r \in DOMAIN rooms :
        /\ Len(rooms[r].tile_ids) = WIDTH * HEIGHT
        /\ \A i \in 1..Len(rooms[r].tile_ids) :
              rooms[r].tile_ids[i] \in DOMAIN rooms[r].blueprints

\* The void blueprint has been given a transform effect by an
\* UpdateBlueprintAction, and a UseAction has applied it to the first cell.
C8_Witness ==
    \E r \in DOMAIN rooms :
        /\ rooms[r].blueprints["void"].effects # NoEffects
        /\ rooms[r].tile_ids[1] = "wall-door-open"


\* C9: a member that has entered is, while inside, on its room's roster and
\* in game.members; entering appends exactly the new member to both and
\* exiting removes exactly that member from both, so that every enter
\* followed by its exit leaves both as before, cycle after cycle, and a room
\* all of whose members have exited has an empty roster.
C9_EnterExitRestoresMembers ==
    /\ [](\A c \in Conns :
             Inside(c) => /\ conn[c].member \in Linked(conn[c].room)
                          /\ conn[c].member \in DOMAIN members
                          /\ members[conn[c].member].room_id = conn[c].room)
    /\ []((\A c \in Conns : conn[c].state \in {"idle", "closed"})
             => /\ DOMAIN members = {}
                /\ \A r \in DOMAIN rooms : rooms[r].members = << >>)
    /\ [][\A c \in Conns :
             /\ (conn[c].state \in {"idle", "closed"} /\ conn'[c].state = "active")
                   => LET r == conn'[c].room
                          m == conn'[c].member
                      IN  /\ m \notin DOMAIN members
                          /\ rooms'[r].members = Append(rooms[r].members, m)
                          /\ DOMAIN members' = DOMAIN members \cup {m}
                          /\ \A o \in DOMAIN members : members'[o] = members[o]
             /\ (conn[c].state = "leaving" /\ conn'[c].state # "leaving")
                   => LET r == conn[c].room
                          m == conn[c].member
                      IN  /\ conn'[c].state = "closed"
                          /\ rooms'[r].members = ListRemove(rooms[r].members, m)
                          /\ DOMAIN members' = DOMAIN members \ {m}
                          /\ \A o \in DOMAIN members' : members'[o] = members[o]]_vars

\* The same connection has entered and exited twice, and the roster and
\* game.members are empty as before the first entry.
C9_Witness ==
    \E c \in Conns :
        /\ conn[c].state = "closed"
        /\ conn[c].member = MemberId(2)
        /\ \A d \in Conns \ {c} : conn[d].state = "idle"
        /\ DOMAIN members = {}
        /\ rooms[conn[c].room].members = << >>

\* C10: whenever a connection has ended, be it by a close of the websocket
\* or by an exception or cancellation leaving the body of room.enter(), its
\* member is off the roster and out of game.members, and a MoveMemberAction
\* to (-1, -1) for it has been published to the members that remained and
\* not to the member itself.
C10_EveryCloseExits ==
    \A c \in Conns :
        conn[c].state \in {"closed", "aborted"}
        => /\ conn[c].member \notin Linked(conn[c].room)
           /\ conn[c].member \notin DOMAIN members
           /\ \E i \in 1..Len(log) :
                 /\ log[i].action = MoveMemberAction(conn[c].member, <<-1, -1>>)
                 /\ log[i].room = Some(conn[c].room)
                 /\ conn[c].member \notin log[i].to


\* C11: entering a room creates a Member of the current player at the room
\* centre and links it; then a MoveMemberAction with that position is put on
\* the queue of every linked member, the new one included; then a
\* WelcomeAction is put on the queue of the new member alone. The new
\* member's queue so starts with its own arrival followed by the welcome,
\* and no member ever gets a WelcomeAction that is not its own.
C11_EnterMoveThenWelcome ==
    /\ [][\A c \in Conns :
             (conn[c].state \in {"idle", "closed"} /\ conn'[c].state = "active")
             => LET m == conn'[c].member
                    r == conn'[c].room
                    centre == members'[m].position
                    move == MoveMemberAction(m, centre)
                IN  /\ 2 * centre[1] = WIDTH * SIZE /\ 2 * centre[2] = HEIGHT * SIZE
                    /\ members'[m] = Member(m, PlayerOf(c), r, centre)
                    /\ Range(rooms'[r].members) = Linked(r) \cup {m}
                    /\ \A o \in Linked(r) : queue'[o] = Append(queue[o], move)
                    /\ \A k \in DOMAIN queue \ Linked(r) : queue'[k] = queue[k]
                    /\ Len(queue'[m]) = 2
                    /\ queue'[m][1] = move
                    /\ queue'[m][2].type = "WelcomeAction"
                    /\ queue'[m][2].member_id = m
                    /\ queue'[m][2].room.id = r
                    /\ Len(log') = Len(log) + 2
                    /\ log'[Len(log) + 1] =
                          [room |-> Some(r), to |-> Linked(r) \cup {m}, action |-> move]
                    /\ log'[Len(log) + 2] =
                          [room |-> None, to |-> {m}, action |-> queue'[m][2]]]_vars
    /\ [](\A i \in 1..Len(log) :
             log[i].action.type = "WelcomeAction" => log[i].to = {log[i].action.member_id})
    /\ [](\A k \in DOMAIN queue : \A i \in 1..Len(queue[k]) :
             queue[k][i].type = "WelcomeAction" => queue[k][i].member_id = k /\ i = 2)

\* A second member has entered a room that had one: its queue starts with
\* its own arrival and its welcome, and the first member has been told of the
\* arrival after its own welcome.
C11_Witness ==
    \E c, d \in Conns :
        /\ c # d
        /\ conn[c].state = "active" /\ conn[d].state = "active"
        /\ conn[c].room = conn[d].room
        /\ conn[c].member = MemberId(1) /\ conn[d].member = MemberId(2)
        /\ queue[MemberId(2)][1] = MoveMemberAction(MemberId(2), <<64, 36>>)
        /\ queue[MemberId(2)][2].type = "WelcomeAction"
        /\ Len(queue[MemberId(1)]) >= 3
        /\ queue[MemberId(1)][2].type = "WelcomeAction"
        /\ queue[MemberId(1)][3] = MoveMemberAction(MemberId(2), <<64, 36>>)


\* C12: an UpdateBlueprintAction whose blueprint has the id '' and that is
\* performed always adds one blueprint, under a new non-empty id that no
\* blueprint of the room had, leaves every other blueprint as it was, and
\* broadcasts the action carrying the blueprint with the assigned id.
C12_NewBlueprintGetsFreshId ==
    [][\A c \in Conns :
          (/\ Acts(c, "UpdateBlueprintAction")
           /\ action'[c][1].blueprint.id = ""
           /\ ~Failed(c))
          => LET r == conn[c].room
                 old == rooms[r].blueprints
                 new == rooms'[r].blueprints
                 added == DOMAIN new \ DOMAIN old
             IN  /\ Cardinality(added) = 1
                 /\ "" \notin added
                 /\ \A x \in DOMAIN old : new[x] = old[x]
                 /\ \A x \in added :
                       /\ new[x].id = x
                       /\ \A k \in Linked(r) :
                             /\ Len(queue'[k]) = Len(queue[k]) + 1
                             /\ queue'[k][Len(queue'[k])].type = "UpdateBlueprintAction"
                             /\ queue'[k][Len(queue'[k])].blueprint = new[x]]_vars


\* C13: an UpdateBlueprintAction fails with a not-found error when its
\* blueprint has a non-empty id that is no key of room.blueprints, and, for
\* any id, when a TransformTileEffect of the blueprint names a blueprint_id
\* that is no key of room.blueprints; then room.blueprints is unchanged and
\* nothing is broadcast. With a non-empty, known id and resolvable effects it
\* replaces exactly that blueprint.
C13_UpdateBlueprintChecksIds ==
    [][\A c \in Conns :
          Acts(c, "UpdateBlueprintAction") =>
              LET a == action'[c][1]
                  r == conn[c].room
                  bp == a.blueprint
                  old == rooms[r].blueprints
                  new == rooms'[r].blueprints
                  targets == {e.blueprint_id : e \in
                                 {x \in Range(AllEffects(bp)) : x.type = "TransformTileEffect"}}
                  unknown == bp.id # "" /\ bp.id \notin DOMAIN old
              IN  IF unknown \/ targets \ DOMAIN old # {}
                  THEN /\ \E k \in (targets \ DOMAIN old) \cup (IF unknown THEN {bp.id} ELSE {}) :
                             error'[c] = Some("Unknown key " \o k)
                       /\ new = old
                       /\ queue' = queue
                       /\ log' = log
                  ELSE bp.id # ""
                       => /\ ~Failed(c)
                          /\ DOMAIN new = DOMAIN old
                          /\ \A x \in DOMAIN old \ {bp.id} : new[x] = old[x]
                          /\ new[bp.id] =
                                [bp EXCEPT !.effects =
                                    [z \in DOMAIN bp.effects |->
                                        [i \in 1..Len(bp.effects[z]) |->
                                            rewrite_effect_url(bp.effects[z][i])]]]]_vars

\* One member has replaced the void blueprint, and the other has been
\* refused a blueprint under an id the room does not know.
C13_Witness ==
    \E c, d \in Conns :
        /\ c # d
        /\ action[c] # None /\ action[c][1].type = "UpdateBlueprintAction"
        /\ action[c][1].blueprint.id = "void"
        /\ error[c] = None
        /\ RoomOf(c).blueprints["void"] = action[c][1].blueprint
        /\ RoomOf(c).blueprints["void"].wall
        /\ action[d] # None /\ action[d][1].type = "UpdateBlueprintAction"
        /\ action[d][1].blueprint.id = "nope"
        /\ error[d] = Some("Unknown key nope")
        /\ "nope" \notin DOMAIN RoomOf(d).blueprints


\* C14: a UseAction applies the UseCause effects of the blueprint that is at
\* tile_index and broadcasts to every linked member a copy of the action
\* whose effects are the resolved effects, whatever effects the client
\* sent; a tile_index outside [0, WIDTH*HEIGHT) fails with an index error.
C14_UseResolvesEffects ==
    [][\A c \in Conns :
          Acts(c, "UseAction") =>
              LET a == action'[c][1]
                  r == conn[c].room
              IN  IF 0 <= a.tile_index /\ a.tile_index < WIDTH * HEIGHT
                  THEN LET bp == rooms[r].blueprints[rooms[r].tile_ids[a.tile_index + 1]]
                           effects == AllEffects(bp)
                       IN  /\ ~Failed(c)
                           /\ \A k \in Linked(r) :
                                 LET got == queue'[k][Len(queue'[k])]
                                 IN  /\ Len(queue'[k]) = Len(queue[k]) + 1
                                     /\ got.type = "UseAction"
                                     /\ got.member_id = a.member_id
                                     /\ got.tile_index = a.tile_index
                                     /\ Len(got.effects) = Len(effects)
                                     /\ \A j \in 1..Len(effects) :
                                           IF effects[j].type = "TransformTileEffect"
                                           THEN got.effects[j] = effects[j]
                                           ELSE /\ got.effects[j].type = effects[j].type
                                                /\ got.effects[j].url = effects[j].url
                  ELSE /\ error'[c] = Some("Unknown index")
                       /\ rooms' = rooms
                       /\ queue' = queue]_vars

\* C15: for a tile index i and a blueprint at i whose effects[UseCause] is
\* [TransformTileEffect(blueprint_id=b)], Tile.cause(UseCause, i) makes
\* room.tiles[i] the blueprint b, changes no other cell of the grid, and
\* returns the one-element list [TransformTileEffect(blueprint_id=b)].
C15_TransformOnUse ==
    [][\A c \in Conns :
          (/\ Acts(c, "UseAction")
           /\ 0 <= action'[c][1].tile_index
           /\ action'[c][1].tile_index < WIDTH * HEIGHT)
          => LET r == conn[c].room
                 i == action'[c][1].tile_index + 1
                 effects == AllEffects(rooms[r].blueprints[rooms[r].tile_ids[i]])
             IN  (Len(effects) = 1 /\ effects[1].type = "TransformTileEffect")
                 => LET b == effects[1].blueprint_id
                    IN  /\ rooms'[r].blueprints[rooms'[r].tile_ids[i]] = rooms'[r].blueprints[b]
                        /\ rooms'[r].tile_ids[i] = b
                        /\ \A j \in 1..(WIDTH * HEIGHT) \ {i} :
                              rooms'[r].tile_ids[j] = rooms[r].tile_ids[j]
                        /\ rooms'[r].blueprints = rooms[r].blueprints
                        /\ queue'[conn[c].member][Len(queue'[conn[c].member])].effects
                              = <<TransformTileEffect(b)>>]_vars

\* A closed door placed on the first cell has been used, by a client that
\* sent effects of its own: the cell is an open door and the action the
\* room got carries the transform to the open door.
C15_Witness ==
    \E c \in Conns :
        /\ action[c] # None /\ action[c][1].type = "UseAction"
        /\ action[c][1].tile_index = 0
        /\ action[c][1].effects = <<TransformTileEffect("grass")>>
        /\ error[c] = None
        /\ RoomOf(c).tile_ids[1] = "wall-door-open"
        /\ queue[conn[c].member][Len(queue[conn[c].member])].effects
              = <<TransformTileEffect("wall-door-open")>>


\* C16: an UpdateRoomAction whose room has another id than the current room
\* fails with an invalid-argument error, title and description stay and
\* nothing is broadcast; otherwise it sets the title and the description of
\* the room to those of the action, leaves id, tile_ids and blueprints as
\* they were, and broadcasts the action to every linked member.
C16_UpdateRoomOwnRoomOnly ==
    [][\A c \in Conns :
          Acts(c, "UpdateRoomAction") =>
              LET a == action'[c][1]
                  r == conn[c].room
              IN  IF a.room.id # rooms[r].id
                  THEN /\ error'[c] = Some("External room " \o a.room.id)
                       /\ rooms' = rooms
                       /\ queue' = queue
                       /\ log' = log
                  ELSE /\ ~Failed(c)
                       /\ rooms'[r].title = a.room.title
                       /\ rooms'[r].description = a.room.description
                       /\ rooms'[r].id = rooms[r].id
                       /\ rooms'[r].tile_ids = rooms[r].tile_ids
                       /\ rooms'[r].blueprints = rooms[r].blueprints
                       /\ rooms'[r].members = rooms[r].members
                       /\ \A k \in Linked(r) : queue'[k] = Append(queue[k], a)]_vars

\* One member has renamed the room and the other has been refused an update
\* of a room it is not in.
C16_Witness ==
    \E c, d \in Conns :
        /\ c # d
        /\ conn[c].room = conn[d].room
        /\ action[c] # None /\ action[c][1].type = "UpdateRoomAction"
        /\ error[c] = None
        /\ RoomOf(c).title = "Title" /\ RoomOf(c).description = Some("About")
        /\ action[d] # None /\ action[d][1].type = "UpdateRoomAction"
        /\ error[d] = Some("External room elsewhere")


\* C17: in every reachable state every member linked to a room has a
\* position with 0 <= x < WIDTH*Tile.SIZE and 0 <= y < HEIGHT*Tile.SIZE; the
\* position (-1, -1) is no member's stored position and is published only
\* in the MoveMemberAction that tells the room of a member that has left.
C17_PositionsInsideRoom ==
    /\ \A r \in DOMAIN rooms : \A m \in Linked(r) :
          /\ m \in DOMAIN members
          /\ 0 <= members[m].position[1] /\ members[m].position[1] < WIDTH * SIZE
          /\ 0 <= members[m].position[2] /\ members[m].position[2] < HEIGHT * SIZE
    /\ \A m \in DOMAIN members : members[m].position # <<-1, -1>>
    /\ \A i \in 1..Len(log) :
          (log[i].action.type = "MoveMemberAction" /\ log[i].action.position = <<-1, -1>>)
          => /\ log[i].action.member_id \notin log[i].to
             /\ log[i].action.member_id \notin DOMAIN members
             /\ log[i].action.member_id \notin Linked(log[i].room[1])

\* A member has been refused a move to (-1, -1) and has then left, which
\* the member that stays, at the far corner of the room, has been told with
\* a move to (-1, -1).
C17_Witness ==
    \E c, d \in Conns :
        /\ c # d
        /\ conn[c].state = "closed"
        /\ error[c] = Some("Out-of-range position (-1, -1)")
        /\ conn[d].state = "active"
        /\ members[conn[d].member].position = <<WIDTH * SIZE - 1, HEIGHT * SIZE - 1>>
        /\ queue[conn[d].member][Len(queue[conn[d].member])]
              = MoveMemberAction(conn[c].member, <<-1, -1>>)


C20_UpdateKeepsIdAndToken ==
    [][(reply'.op = "put" /\ reply'.status # 401)
          => LET id == reply'.player[1]
                 data == reply'.data
                 name == IF "name" \in DOMAIN data THEN Strip(data.name) ELSE "Guest"
                 tutorial == IF "tutorial" \in DOMAIN data THEN data.tutorial ELSE FALSE
             IN  /\ tokens' = tokens
                 /\ DOMAIN players' = DOMAIN players
                 /\ \A x \in DOMAIN players \ {id} : players'[x] = players[x]
                 /\ players'[id].id = players[id].id
                 /\ players'[id].token = players[id].token
                 /\ tokens'[players[id].token] = id
                 /\ {"id", "token"} \subseteq DOMAIN data
                       => (reply'.status = 200 <=> name # "")
                 /\ reply'.status = 200
                       => /\ players'[id].name = name
                          /\ players'[id].tutorial = tutorial
                 /\ reply'.status # 200 => players' = players]_vars

\* A player that signed in has put a patch carrying the id and the token of
\* another player: it has the new name, its own token, and the other
\* player is as it was.
C20_Witness ==
    /\ DOMAIN players = {"s1", PlayerId(2)}
    /\ reply.op = "put" /\ reply.status = 200
    /\ reply.player = Some(PlayerId(2))
    /\ reply.data.id = "s1" /\ reply.data.token = "t-s1"
    /\ players[PlayerId(2)] = PrivatePlayer(PlayerId(2), "Zoe", Token(2), FALSE)
    /\ players["s1"] = PrivatePlayer("s1", "Ann", "t-s1", TRUE)
    /\ tokens[Token(2)] = PlayerId(2)


\* C21: a request that presents a token for which authenticate fails is
\* handled as that of a new visitor: a new player is signed in for it and
\* the request goes on, it is not refused and the connection is not closed.
C21_UnknownTokenSignsIn ==
    [][(reply'.op = "authenticate" /\ reply'.token \notin DOMAIN tokens)
          => /\ reply'.status = 200
             /\ reply'.player # None
             /\ reply'.player[1] \notin DOMAIN players
             /\ reply'.player[1] \in DOMAIN players']_vars

C23_RoomsIndependent ==
    [][\A b \in DOMAIN rooms :
          (rooms'[b] # rooms[b] \/ \E m \in Linked(b) : queue'[m] # queue[m])
          => \E c \in Conns :
                /\ conn'[c].room = b
                /\ Receives(c) \/ conn'[c] # conn[c]]_vars

\* Both rooms have a member, and room A was changed and has published to
\* its member while room B is as it was created.
C23_Witness ==
    \E a \in DOMAIN rooms : \E b \in DOMAIN rooms \ {a} :
        /\ Linked(a) # {} /\ Linked(b) # {}
        /\ rooms[a].tile_ids[1] = "wall-door-closed"
        /\ \E i \in 1..Len(log) :
              log[i].room = Some(a) /\ log[i].action.type = "PlaceTileAction"
        /\ [rooms[b] EXCEPT !.members = << >>] = create_room(G, b).rooms[b]

\* C24: create_data_directory on a directory that exists raises
\* FileExistsError and writes nothing; otherwise the directory is made, and
\* the marker 'room' is there exactly when the call returned, in which case
\* state/players and state/rooms hold the file of every player and room.
C24_CreateSavesBeforeMarker ==
    [][(run'.op = "create" /\ run.op # "create")
          => IF disk.exists
             THEN run'.raised = Raise("FileExistsError", "data") /\ disk' = disk
             ELSE /\ disk'.exists
                  /\ disk'.marker <=> (run'.raised = None)
                  /\ disk'.marker
                     => /\ disk'.state
                        /\ \A id \in DOMAIN players :
                              /\ FileName(id) \in DOMAIN disk'.players
                              /\ disk'.players[FileName(id)] =
                                     PrivatePlayer_dump_json(players[id])
                        /\ \A id \in DOMAIN rooms :
                              /\ FileName(id) \in DOMAIN disk'.rooms
                              /\ disk'.rooms[FileName(id)] =
                                     OfflineRoom_dump_json(rooms[id])]_vars

\* create_data_directory returned for a game with a player and a room.
C24_Witness ==
    /\ run.op = "create" /\ run.raised = None
    /\ disk.marker
    /\ DOMAIN players # {} /\ DOMAIN rooms # {}
    /\ DOMAIN disk.players # {} /\ DOMAIN disk.rooms # {}

\* C25: run on a directory without the marker 'room' that is not a legacy
\* directory of flat room files (it has other entries, or a *.json file
\* that holds no room) raises the error of a bad data directory, and has
\* loaded, created and moved nothing.
C25_RunRejectsUnmarkedDirectory ==
    [][(/\ run'.op = "run" /\ run.op # "run"
        /\ disk.exists /\ ~disk.marker
        /\ ~(/\ disk.other = {} /\ ~disk.state
             /\ \A n \in DOMAIN disk.flat :
                   OnlineRoom_validate_json(disk.flat[n]) # None))
          => /\ run'.raised = Raise("OSError", "[Errno 22] Bad Room data directory")
             /\ disk' = disk
             /\ rooms' = rooms /\ players' = players]_vars

\* C26: in the loop of run a save that raises, an OSError or anything else,
\* is logged and leaves run asleep again, and a further save is attempted:
\* however many saves failed in a row, the next one comes.
C26_SaveFailureNeverEndsLoop ==
    /\ [][(run'.op = "tick" /\ run'.saves = run.saves + 1 /\ run'.saved # None)
             => /\ run'.state = "sleeping"
                /\ run'.raised = None
                /\ run'.logged = run.logged + 1]_vars
    /\ \A n \in 1..(MaxSaves - 1) :
          (run.state = "sleeping" /\ run.saves = n /\ run.saved # None)
              ~> (run.saves > n)

\* Every save of the loop so far failed, with both kinds of exception
\* among them, and run sleeps.
C26_Witness ==
    /\ run.state = "sleeping"
    /\ run.saves = MaxSaves /\ run.logged = MaxSaves
    /\ run.saved = Raise("TypeError", "rooms")

\* C27: cancelling run while it sleeps makes exactly one more save attempt
\* and ends run with the CancelledError, whether that save fails or not;
\* nothing is saved after that.
C27_CancelSavesOnceAndPropagates ==
    /\ [][(run.state = "sleeping" /\ run'.op = "cancel")
             => /\ run'.saves = run.saves + 1
                /\ run'.state = "cancelled"
                /\ run'.raised = Raise("CancelledError", "")]_vars
    /\ [][run.state = "cancelled" => (run' = run /\ disk' = disk)]_vars

\* run was cancelled and its last save failed.
C27_Witness ==
    /\ run.state = "cancelled" /\ run.op = "cancel"
    /\ run.saved # None
    /\ run.raised = Raise("CancelledError", "")

\* C28: when the data directory holds what saving the game to a new
\* directory gives, loading it into a new Game gives the rooms with the
\* same id, tile_ids, blueprints, title and description and with an empty
\* roster, and the players with the same id, name, token and tutorial.
C28_SaveLoadRoundTrip ==
    disk = create_data_directory(P, G, NoDirectory, "ok").disk
    => LET loaded == run_load([players |-> << >>, tokens |-> << >>],
                              [rooms |-> << >>, members |-> << >>, queue |-> << >>,
                               log |-> << >>], disk)
       IN  /\ loaded.raised = None
           /\ DOMAIN loaded.g.rooms = DOMAIN rooms
           /\ \A r \in DOMAIN rooms :
                 /\ loaded.g.rooms[r].id = rooms[r].id
                 /\ loaded.g.rooms[r].tile_ids = rooms[r].tile_ids
                 /\ loaded.g.rooms[r].blueprints = rooms[r].blueprints
                 /\ loaded.g.rooms[r].title = rooms[r].title
                 /\ loaded.g.rooms[r].description = rooms[r].description
                 /\ loaded.g.rooms[r].members = << >>
           /\ DOMAIN loaded.p.players = DOMAIN players
           /\ \A id \in DOMAIN players :
                 /\ loaded.p.players[id].id = players[id].id
                 /\ loaded.p.players[id].name = players[id].name
                 /\ loaded.p.players[id].token = players[id].token
                 /\ loaded.p.players[id].tutorial = players[id].tutorial

\* The loop has saved a game with players and with a room that has a
\* member, a placed tile and blueprints with effects.
C28_Witness ==
    /\ run.state = "sleeping" /\ run.saves > 0
    /\ disk = create_data_directory(P, G, NoDirectory, "ok").disk
    /\ DOMAIN players # {}
    /\ \E r \in DOMAIN rooms :
          /\ rooms[r].members # << >>
          /\ rooms[r].tile_ids[1] = "grass"
          /\ \E b \in DOMAIN rooms[r].blueprints :
                DOMAIN rooms[r].blueprints[b].effects # {}

\* C29: for every room file of the data directory the migration changes
\* nothing when the file is at the current version (version 0.5,
\* WIDTH*HEIGHT tiles, title and description), and run twice gives what it
\* gives run once.
C29_MigrationIdempotent ==
    \A f \in RoomFiles :
        LET once == OfflineRoom_check(f)
        IN  /\ once # None => OfflineRoom_check(once[1]) = once
            /\ (/\ {"version", "tile_ids", "title", "description"} \subseteq DOMAIN f
                /\ f.version = "0.5"
                /\ Len(f.tile_ids) = WIDTH * HEIGHT)
               => once = Some(f)

\* The data directory that was loaded holds a room file of the current
\* version with a title of its own and a legacy room file.
C29_Witness ==
    /\ run.state = "sleeping"
    /\ \E f \in RoomFiles :
          /\ "version" \in DOMAIN f /\ f.version = "0.5" /\ f.title = "Lobby"
          /\ Len(f.tile_ids) = WIDTH * HEIGHT
    /\ \E f \in RoomFiles :
          Len(f.tile_ids) = source_width * source_height

\* C30: the migration of a room file with an 8 x 8 grid gives a grid of
\* WIDTH x HEIGHT tiles in which cell (x + (WIDTH - 8) \div 2,
\* y + (HEIGHT - 8) \div 2) is the old cell (x, y) and every other cell is
\* the first blueprint of the file; the version is 0.5, a missing title is
\* 'New Room' and a missing description is None.
C30_LegacyGridCentred ==
    \A f \in RoomFiles :
        ("tile_ids" \in DOMAIN f /\ Len(f.tile_ids) = 8 * 8 /\ "blueprints" \in DOMAIN f
            /\ f.blueprints # << >>)
        => LET once == OfflineRoom_check(f)
               dx == (WIDTH - 8) \div 2
               dy == (HEIGHT - 8) \div 2
           IN  /\ once # None
               /\ Len(once[1].tile_ids) = WIDTH * HEIGHT
               /\ \A x \in 0..7, y \in 0..7 :
                     once[1].tile_ids[(x + dx) + (y + dy) * WIDTH + 1]
                         = f.tile_ids[x + y * 8 + 1]
               /\ \A x \in 0..(WIDTH - 1), y \in 0..(HEIGHT - 1) :
                     ~(x - dx \in 0..7 /\ y - dy \in 0..7)
                     => once[1].tile_ids[x + y * WIDTH + 1] = f.blueprints[1][1]
               /\ ("version" \notin DOMAIN f \/ f.version \in {"0.1", "0.2", "0.3", "0.4"})
                  => once[1].version = "0.5"
               /\ once[1].title = IF "title" \in DOMAIN f THEN f.title ELSE "New Room"
               /\ once[1].description =
                      IF "description" \in DOMAIN f THEN f.description ELSE None
               /\ once[1].id = f.id /\ once[1].blueprints = f.blueprints

\* A legacy file without version, title and description is in the data
\* directory, and the game has loaded its room with the migrated grid.
C30_Witness ==
    /\ run.state = "sleeping"
    /\ \E f \in RoomFiles :
          /\ Len(f.tile_ids) = 8 * 8
          /\ DOMAIN f = {"id", "tile_ids", "blueprints"}
          /\ f.id \in DOMAIN rooms
          /\ rooms[f.id].tile_ids = OfflineRoom_check(f)[1].tile_ids
          /\ rooms[f.id].tile_ids[5] = "grass"
          /\ rooms[f.id].tile_ids[1] = "floor"
          /\ rooms[f.id].title = "New Room"


\* C31: in every blueprint held by a room, the list of effects of every
\* cause is not empty and holds no two effects of the same kind, so that an
\* UpdateBlueprintAction whose blueprint has two effects of one kind under
\* one cause never reaches the room.
C31_EffectListsWellFormed ==
    \A r \in DOMAIN rooms : \A id \in DOMAIN rooms[r].blueprints :
        LET effects == rooms[r].blueprints[id].effects
        IN  \A c \in DOMAIN effects :
               /\ Len(effects[c]) >= 1
               /\ \A i, j \in 1..Len(effects[c]) :
                     i # j => effects[c][i].type # effects[c][j].type

\* The actions that only the server sends, as a client would send them.
ServerOnlyMessages(m, r) == WelcomeMessages(m, r) \cup {FailedAction(m, "Unknown index")}

\* C32: a message that is a WelcomeAction or a FailedAction is never accepted
\* from a client: the iteration of the message loop that handles it decodes
\* no action, performs and publishes nothing, leaves every room as it was,
\* and sends the sender a FailedAction.
C32_ServerActionsNotAccepted ==
    [][\A c \in Conns : \A data \in ServerOnlyMessages(conn[c].member, conn[c].room) :
          Receive(c, data, "") =>
              /\ action'[c] = None
              /\ rooms' = rooms
              /\ log' = log
              /\ Len(sent'[c]) = Len(sent[c]) + 1
              /\ sent'[c][Len(sent'[c])].type = "FailedAction"]_vars

\* C33: when a connection closes normally, its write task is cancelled and
\* has stopped before the member is deleted and unlinked; so no action is
\* put on the queue of a member whose write task has stopped, and nothing
\* is sent on a connection whose member was unlinked.
C33_NoEnqueueAfterDrainStopped ==
    [][\A c \in Conns :
          LET m == conn[c].member
          IN  /\ (m \in DOMAIN members /\ m \notin DOMAIN members')
                     => conn[c].state = "leaving"
              /\ (conn[c].state = "leaving" /\ m \in DOMAIN queue')
                     => queue'[m] = queue[m]
              /\ (conn[c].state = "closed" /\ conn'[c].state = "closed")
                     => sent'[c] = sent[c]]_vars

\* The actions that the log entries from..to name for member m, in order.
PublishedTo(m, entries) ==
    LET mine == SelectSeq(entries, LAMBDA e : m \in e.to)
    IN  [i \in 1..Len(mine) |-> mine[i].action]

\* C34: publishing never waits for a write task: a step that publishes ends
\* with every published action at the end of the queue of every member it
\* was published to, however many actions wait there already, and without
\* any write task sending anything in that step; so a member whose write
\* task sends nothing holds up neither the performer nor what the other
\* members are sent.
C34_PublishNeverWaits ==
    [][Len(log') > Len(log) =>
          /\ SubSeq(log', 1, Len(log)) = log
          /\ \A m \in DOMAIN queue' :
                queue'[m] = (IF m \in DOMAIN queue THEN queue[m] ELSE << >>)
                            \o PublishedTo(m, SubSeq(log', Len(log) + 1, Len(log')))
          /\ \A c \in Conns : Delivered(c)' = Delivered(c) \/ sent'[c] = << >>]_vars

\* The write task of a member has sent nothing while four actions wait on
\* its queue, and another member has been sent the action published last.
C34_Witness ==
    \E c, d \in Conns :
        /\ c # d
        /\ conn[c].state = "active"
        /\ conn[d].state = "active"
        /\ Delivered(c) = << >>
        /\ Len(queue[conn[c].member]) >= 4
        /\ log # << >>
        /\ log[Len(log)].action = queue[conn[c].member][Len(queue[conn[c].member])]
        /\ Len(Delivered(d)) >= 3
        /\ Delivered(d)[Len(Delivered(d))] = log[Len(log)].action

\* C35: an action published to a room is put once on the queue of every
\* member linked then, and an action is sent at most once: the write task
\* sends only the action it takes off the head of the queue, and nothing
\* leaves a queue unsent. Under fairness of the write task, a connection
\* that stays open is again and again at a point where every action
\* published to its member so far has been sent on it, each one once, in
\* the order of publishing.
C35_SentExactlyOnce ==
    /\ [][\A c \in Conns :
             LET m == conn[c].member
                 got == Delivered(c)
             IN  conn'[c] = conn[c] /\ conn[c].member # "" =>
                    /\ Len(Delivered(c)') \in {Len(got), Len(got) + 1}
                    /\ Len(Delivered(c)') = Len(got) + 1 =>
                          /\ queue[m] # << >>
                          /\ IsSent(Delivered(c)'[Len(got) + 1], Head(queue[m]))
                          /\ queue'[m] = Tail(queue[m])
                    /\ Len(Delivered(c)') = Len(got) =>
                          /\ Len(queue'[m]) >= Len(queue[m])
                          /\ SubSeq(queue'[m], 1, Len(queue[m])) = queue[m]
                    /\ \A d \in Conns :
                          (d # c /\ conn'[d] = conn[d] /\ conn[d].room = conn[c].room
                              /\ m \in Linked(conn[c].room) /\ conn[d].member \in Linked(conn[c].room)
                              /\ Len(log') = Len(log) + 1 /\ log'[Len(log')].room # None)
                             => /\ queue'[m] = Append(queue[m], log'[Len(log')].action)
                                /\ queue'[conn[d].member] =
                                      Append(queue[conn[d].member], log'[Len(log')].action)]_vars
    /\ \A c \in Conns :
          []<>(\/ conn[c].state # "active"
               \/ /\ queue[conn[c].member] = << >>
                  /\ Len(Delivered(c)) = Len(Expected(conn[c].member))
                  /\ \A n \in 1..Len(Delivered(c)) :
                        IsSent(Delivered(c)[n], Expected(conn[c].member)[n]))

\* Both members of a room have been sent an action published to the room,
\* and nothing waits on their queues.
C35_Witness ==
    \E c, d \in Conns :
        /\ c # d
        /\ conn[c].state = "active"
        /\ conn[d].state = "active"
        /\ queue[conn[c].member] = << >>
        /\ queue[conn[d].member] = << >>
        /\ \E i \in 1..Len(log) :
              /\ log[i].to = {conn[c].member, conn[d].member}
              /\ log[i].action.type = "PlaceTileAction"
              /\ Cardinality({k \in 1..Len(sent[c]) : sent[c][k] = log[i].action}) = 1
              /\ Cardinality({k \in 1..Len(sent[d]) : sent[d][k] = log[i].action}) = 1

\* What an effect becomes when it is applied: a FollowLinkEffect gains the
\* link it leads to.
Resolved(effect) ==
    IF effect.type = "FollowLinkEffect"
    THEN [effect EXCEPT !.link = Some(Link(effect.url, "Link"))]
    ELSE effect

\* C36: Tile.cause applies the effects of the cause in list order and
\* returns the resolved effects, as many and in the same order: of several
\* TransformTileEffects the last one decides the tile. Without an entry for
\* the cause it returns the empty list and changes nothing. When an effect
\* raises (a TransformTileEffect on an index outside of the grid), the call
\* ends with that exception and the room is as the effects before it left
\* it.
C36_CauseInListOrder ==
    [][(/\ reply'.op = "cause"
        /\ handled' = handled
        /\ entered' = entered
        /\ DOMAIN rooms' = DOMAIN rooms) =>
          LET r == reply'.room
              tile == reply'.tile
              effects == IF reply'.cause \in DOMAIN tile.effects
                         THEN tile.effects[reply'.cause] ELSE << >>
              i == PyIndex(NTILES, reply'.tile_index)
              transforms == SelectSeq(effects, LAMBDA e : e.type = "TransformTileEffect")
          IN  /\ members' = members
              /\ queue' = queue
              /\ log' = log
              /\ IF transforms = << >>
                 THEN /\ reply'.raised = None
                      /\ rooms' = rooms
                      /\ reply'.result = [k \in 1..Len(effects) |-> Resolved(effects[k])]
                 ELSE IF i # 0
                 THEN /\ reply'.raised = None
                      /\ rooms' = [rooms EXCEPT
                            ![r].tile_ids[i] = transforms[Len(transforms)].blueprint_id]
                      /\ reply'.result = [k \in 1..Len(effects) |-> Resolved(effects[k])]
                 ELSE /\ reply'.raised # None
                      /\ reply'.raised[1].type = "IndexError"
                      /\ rooms' = rooms]_vars

\* Tile.cause was called on a blueprint with two TransformTileEffects: the
\* tile is what the second one names.
C36_Witness ==
    /\ reply.op = "cause"
    /\ reply.raised = None
    /\ reply.tile_index = 0
    /\ reply.result = <<TransformTileEffect("grass"), TransformTileEffect("floor")>>
    /\ rooms[reply.room].tile_ids[1] = "floor"

\* C37: link_member raises ValueError and leaves the roster as it is when
\* the member's room_id is not the id of the room, and appends the member
\* otherwise; unlink_member raises LookupError with the member's id and
\* leaves the roster as it is when the member is not on it, and otherwise
\* takes that member, and nothing else, off the roster.
C37_LinkAndUnlinkChecked ==
    [][(/\ reply'.op \in {"link_member", "unlink_member"}
        /\ entered' = entered
        /\ DOMAIN rooms' = DOMAIN rooms) =>
          LET r == reply'.room
              m == reply'.member
              roster == rooms[r].members
              at == {k \in 1..Len(roster) : roster[k] = m}
          IN  /\ members' = members
              /\ queue' = queue
              /\ log' = log
              /\ reply'.op = "link_member" =>
                    IF members[m].room_id # rooms[r].id
                    THEN /\ reply'.raised # None
                         /\ reply'.raised[1].type = "ValueError"
                         /\ rooms' = rooms
                    ELSE /\ reply'.raised = None
                         /\ rooms' = [rooms EXCEPT ![r].members = roster \o <<m>>]
              /\ reply'.op = "unlink_member" =>
                    IF at = {}
                    THEN /\ reply'.raised = Raise("LookupError", m)
                         /\ rooms' = rooms
                    ELSE /\ reply'.raised = None
                         /\ \E k \in at :
                               /\ \A j \in at : k <= j
                               /\ rooms' = [rooms EXCEPT ![r].members =
                                     SubSeq(roster, 1, k - 1)
                                     \o SubSeq(roster, k + 1, Len(roster))]]_vars

\* In a game with two rooms, unlink_member took a member off a roster on
\* which another member stays; the member is on no roster any more.
C37_Witness ==
    /\ reply.op = "unlink_member"
    /\ reply.raised = None
    /\ reply.member \in DOMAIN members
    /\ Len(rooms[reply.room].members) = 1
    /\ reply.member \notin Range(rooms[reply.room].members)
    /\ \A r \in DOMAIN rooms : reply.member \notin Range(rooms[r].members)
    /\ Cardinality(DOMAIN rooms) = 2

C39_WelcomeRosterOfJoin ==
    \A c \in Conns : \A k \in 1..Len(sent[c]) :
        sent[c][k].type = "WelcomeAction" =>
            \A i \in 1..Len(log) :
                (/\ log[i].action.type = "WelcomeAction"
                 /\ log[i].action.member_id = sent[c][k].member_id)
                => /\ i > 1
                   /\ {member.id : member \in Range(sent[c][k].room.members)} = log[i - 1].to

\* C40: in a room made by create_room, every key of room.blueprints is the
\* id of the blueprint it maps to, and no step takes a key away: the keys of
\* a room only grow. Every blueprint that a step puts into a room has its
\* key as id and TransformTileEffects that lead to blueprints of the room,
\* which so stay blueprints of the room in every later state.
C40_BlueprintKeysAreIdsAndStay ==
    [][\A r \in DOMAIN rooms' :
          LET blueprints == rooms'[r].blueprints
          IN  /\ r \in DOMAIN rooms => DOMAIN rooms[r].blueprints \subseteq DOMAIN blueprints
              /\ \A k \in DOMAIN blueprints :
                    (\/ r \notin DOMAIN rooms
                     \/ k \notin DOMAIN rooms[r].blueprints
                     \/ rooms[r].blueprints[k] # blueprints[k])
                    => /\ blueprints[k].id = k
                       /\ \A i \in 1..Len(AllEffects(blueprints[k])) :
                             AllEffects(blueprints[k])[i].type = "TransformTileEffect"
                             => AllEffects(blueprints[k])[i].blueprint_id
                                   \in DOMAIN blueprints]_vars

\* A room has a blueprint that create_room did not give it, under the id
\* that was minted for it, next to a changed blueprint whose effect leads to
\* one of the first blueprints.
C40_Witness ==
    \E r \in DOMAIN rooms :
        LET blueprints == rooms[r].blueprints
        IN  /\ \E k \in DOMAIN blueprints \ DOMAIN DEFAULT_BLUEPRINTS :
                  /\ k \in MintedIds
                  /\ blueprints[k].id = k
            /\ DOMAIN DEFAULT_BLUEPRINTS \subseteq DOMAIN blueprints
            /\ blueprints["void"] # DEFAULT_BLUEPRINTS["void"]
            /\ AllEffects(blueprints["void"]) =
                  <<TransformTileEffect("grass"), TransformTileEffect("floor")>>

====
